---- MODULE Spec2Model ----
(***************************************************************************)
(* Support ticket analysis pipeline: the call-orchestration engine.        *)
(*                                                                         *)
(* The model follows src/src/client.py (APIClient.call), src/src/cache.py  *)
(* (FileCache, DateOrganizedCache), src/src/orchestrator.py (Extractor,    *)
(* Summarizer, Reporter) and src/src/pipeline.py (run_pipeline).           *)
(*                                                                         *)
(* Scheduling is asyncio's: a coroutine runs without interruption from one *)
(* await that suspends to the next, so one action is the code between two  *)
(* suspension points (waiting for a permit, for the response of a request, *)
(* for the end of a backoff sleep).                                        *)
(***************************************************************************)
EXTENDS Integers, Sequences, FiniteSets, TLC

\* ------------------------------------------------------------------------
\* Bounds of the model
\* ------------------------------------------------------------------------
NumRows == 2            \* rows of the ticket CSV
NumDates == 2           \* calendar dates the rows spread over
MaxRuns == 2            \* runs of run_pipeline in one behaviour
max_concurrent == 1     \* capacity of the gate handed to extract_batch

\* ------------------------------------------------------------------------
\* Program constants
\* ------------------------------------------------------------------------
max_retries == 3        \* APIClient.__init__(max_retries=3)

None == "None"
Rows == 1..NumRows
Dates == 1..NumDates
\* Caller 0 is the run_pipeline coroutine (summarize_day, generate_report);
\* caller i >= 1 is the extract_with_progress task of tickets[i].
Main == 0
Callers == 0..NumRows

\* How a request can fail: asyncio.TimeoutError (first handler of call), or
\* any other Exception raised inside the try block (second handler), such as
\* a transport error or a response without a text block.
TransientFailures == {"TimeoutError", "APIError"}
\* The completion text of a request that succeeded:
\*   "good"     parse_json recovers a value the record type accepts
\*   "prose"    parse_json raises json.JSONDecodeError
\*   "badshape" parse_json returns a value the record constructor rejects
Texts == {"good", "prose", "badshape"}
Trends == {"stable", "rising"}
NoPreviousSummary == "No previous summary"

\* ------------------------------------------------------------------------
\* Text: a str is the sequence of its characters
\* ------------------------------------------------------------------------
Whitespace == {" ", "\n"}
Digits == {"0", "1"}
\* The backtick character (a string cannot hold it here, so it is named).
Backtick == "backtick"
Fence == <<Backtick, Backtick, Backtick>>
TagLower == <<"j", "s", "o", "n">>
TagUpper == <<"J", "S", "O", "N">>

RECURSIVE lstrip(_)
lstrip(s) == IF s # <<>> /\ Head(s) \in Whitespace THEN lstrip(Tail(s)) ELSE s

RECURSIVE rstrip(_)
rstrip(s) ==
    IF s # <<>> /\ s[Len(s)] \in Whitespace THEN rstrip(SubSeq(s, 1, Len(s) - 1)) ELSE s

\* str.strip()
strip(s) == rstrip(lstrip(s))

\* str.startswith(prefix)
startswith(s, prefix) ==
    Len(s) >= Len(prefix) /\ SubSeq(s, 1, Len(prefix)) = prefix

\* str.find(sep) from the offset given, as Python counts: the offset of the
\* first occurrence, -1 when there is none.
RECURSIVE find(_, _, _)
find(s, sep, from) ==
    IF from + Len(sep) > Len(s) THEN -1
    ELSE IF SubSeq(s, from + 1, from + Len(sep)) = sep THEN from
    ELSE find(s, sep, from + 1)

\* str.rfind(char): the offset of the last occurrence, -1 when there is none.
RECURSIVE rfind_from(_, _, _)
rfind_from(s, char, at) ==
    IF at < 0 THEN -1
    ELSE IF s[at + 1] = char THEN at
    ELSE rfind_from(s, char, at - 1)

rfind(s, char) == rfind_from(s, char, Len(s) - 1)

max(a, b) == IF a >= b THEN a ELSE b

\* content[:stop] and content[start:]
slice_to(s, stop) == SubSeq(s, 1, stop)
slice_from(s, start) == SubSeq(s, start + 1, Len(s))

\* str.split(sep): the pieces between the occurrences of sep, left to right
RECURSIVE split(_, _)
split(s, sep) ==
    LET at == find(s, sep, 0)
    IN  IF at = -1 THEN <<s>>
        ELSE <<slice_to(s, at)>> \o split(slice_from(s, at + Len(sep)), sep)

\* ------------------------------------------------------------------------
\* Ticket source (csv_loader.load_tickets)
\* ------------------------------------------------------------------------
\* The CSV fixture: row r was created on date RowDate(r).  The file is not
\* sorted by date: the first row carries the latest date.
RowDate(r) == NumDates - ((r - 1) % NumDates)

InWindow(t, start_date, end_date) == t.date >= start_date /\ t.date <= end_date

RECURSIVE load_rows(_, _, _)
load_rows(r, start_date, end_date) ==
    IF r > NumRows THEN <<>>
    ELSE LET ticket == [id |-> r, date |-> RowDate(r)]
         IN  (IF InWindow(ticket, start_date, end_date) THEN <<ticket>> ELSE <<>>)
             \o load_rows(r + 1, start_date, end_date)

\* Rows are read in file order, rows outside the window are skipped and the
\* id of a ticket is its row index ("ticket_{idx}").
load_tickets(start_date, end_date) == load_rows(1, start_date, end_date)

\* ------------------------------------------------------------------------
\* Records and their JSON files
\* ------------------------------------------------------------------------
Absent == <<>>                          \* no file under the key
Garbage == <<"garbage">>                \* a file the loader cannot decode
model_dump_json(obj) == <<"json", obj>> \* the serializer of save / save_dated

Decodable(text) == Len(text) = 2 /\ text[1] = "json"

\* The outcome of a call: a returned value or a raised exception.
Return(v) == [exc |-> None, val |-> <<v>>]
ReturnNone == [exc |-> None, val |-> <<>>]
Raise(e) == [exc |-> e, val |-> <<>>]

\* The loader handed to get / get_dated: X.model_validate_json(text).
model_validate_json(text) ==
    IF Decodable(text) THEN Return(text[2]) ELSE Raise("ValidationError")

\* FileCache.exists / DateOrganizedCache.exists_dated
exists(cache, key) == cache[key] # Absent

\* FileCache.get / DateOrganizedCache.get_dated: the loader's result when the
\* file exists (its exception is not caught), None otherwise.
get(cache, key) ==
    IF exists(cache, key) THEN model_validate_json(cache[key]) ELSE ReturnNone

\* FileCache.save / DateOrganizedCache.save_dated
save(cache, key, value) == [cache EXCEPT ![key] = model_dump_json(value)]

\* (variant) the cache is never consulted.
cache_check_skipped(cache, key) == ReturnNone

\* The cache check that opens extract_ticket and summarize_day:
\*   if cache.exists(key): cached = cache.get(key, loader); if cached: return cached
\* A pydantic record is always truthy, so a decoded entry is always returned.
cache_check(cache, key) ==
    IF exists(cache, key) THEN get(cache, key) ELSE ReturnNone

\* TicketAnalysis(ticket_id=ticket_id, **data) for a "good" completion.
TicketAnalysis(ticket_id) == [ticket_id |-> ticket_id, category |-> "bug"]

\* The placeholder of extract_with_progress's except branch.
Placeholder(ticket_id) == [ticket_id |-> ticket_id, category |-> "error"]

\* parse_json followed by the record constructor, on the three kinds of text.
parse_and_build(text) ==
    CASE text = "good" -> None
      [] text = "prose" -> "JSONDecodeError"
      [] OTHER -> "ValidationError"

\* ------------------------------------------------------------------------
\* json.loads and json.dumps of the standard library, on the characters of
\* this model.  A JSON value is <<"num", n>>, <<"str", characters>>,
\* <<"arr", items>> or <<"obj", pairs>> with pairs of <<key, value>> in
\* insertion order.
\* ------------------------------------------------------------------------
Fail == [ok |-> FALSE, val |-> <<>>, end |-> 0]
Ok(v, end) == [ok |-> TRUE, val |-> v, end |-> end]

\* WHITESPACE.match(s, i).end()
RECURSIVE skip_ws(_, _)
skip_ws(s, i) == IF i <= Len(s) /\ s[i] \in Whitespace THEN skip_ws(s, i + 1) ELSE i

\* The escapes of a JSON string among the characters of the model.
Unescaped(char) ==
    CASE char = "n" -> "\n"
      [] OTHER -> char

Escapable == {"\"", "\\", "n"}

\* py_scanstring: s[i] is the character after the opening quote.  A raw
\* control character fails (strict), so does an escape that JSON lacks.
RECURSIVE scanstring(_, _, _)
scanstring(s, i, acc) ==
    IF i > Len(s) THEN Fail
    ELSE IF s[i] = "\"" THEN Ok(<<"str", acc>>, i + 1)
    ELSE IF s[i] = "\n" THEN Fail
    ELSE IF s[i] # "\\" THEN scanstring(s, i + 1, Append(acc, s[i]))
    ELSE IF i + 1 > Len(s) \/ s[i + 1] \notin Escapable THEN Fail
    ELSE scanstring(s, i + 2, Append(acc, Unescaped(s[i + 1])))

\* NUMBER_RE: 0, or a digit other than 0 followed by digits.
RECURSIVE digits_end(_, _)
digits_end(s, i) == IF i <= Len(s) /\ s[i] \in Digits THEN digits_end(s, i + 1) ELSE i

number_end(s, i) == IF s[i] = "0" THEN i + 1 ELSE digits_end(s, i)

\* int(text)
RECURSIVE int(_)
int(text) ==
    IF text = <<>> THEN 0
    ELSE 10 * int(SubSeq(text, 1, Len(text) - 1))
         + (IF text[Len(text)] = "1" THEN 1 ELSE 0)

\* dict: a later value for a key replaces the earlier one, in its place.
dict_set(pairs, key, value) ==
    IF \E k \in 1..Len(pairs) : pairs[k][1] = key
    THEN [k \in 1..Len(pairs) |->
             IF pairs[k][1] = key THEN <<key, value>> ELSE pairs[k]]
    ELSE Append(pairs, <<key, value>>)

RECURSIVE scan_once(_, _), array_items(_, _, _), object_pairs(_, _, _)

\* JSONArray after the first item position: value, then "]" or ",".
array_items(s, i, acc) ==
    LET item == scan_once(s, i)
        j == skip_ws(s, item.end)
    IN  IF ~item.ok \/ j > Len(s) THEN Fail
        ELSE IF s[j] = "]" THEN Ok(<<"arr", Append(acc, item.val)>>, j + 1)
        ELSE IF s[j] = "," THEN array_items(s, skip_ws(s, j + 1), Append(acc, item.val))
        ELSE Fail

\* JSONObject at the opening quote of a key: key, ":", value, then "}" or ",".
object_pairs(s, i, acc) ==
    IF i > Len(s) \/ s[i] # "\"" THEN Fail
    ELSE LET key == scanstring(s, i + 1, <<>>)
             colon == skip_ws(s, key.end)
         IN  IF ~key.ok \/ colon > Len(s) \/ s[colon] # ":" THEN Fail
             ELSE LET value == scan_once(s, skip_ws(s, colon + 1))
                      j == skip_ws(s, value.end)
                      pairs == dict_set(acc, key.val[2], value.val)
                  IN  IF ~value.ok \/ j > Len(s) THEN Fail
                      ELSE IF s[j] = "}" THEN Ok(<<"obj", pairs>>, j + 1)
                      ELSE IF s[j] = "," THEN object_pairs(s, skip_ws(s, j + 1), pairs)
                      ELSE Fail

\* scanner.py_make_scanner: the value that starts at s[i]
scan_once(s, i) ==
    IF i > Len(s) THEN Fail
    ELSE IF s[i] = "\"" THEN scanstring(s, i + 1, <<>>)
    ELSE IF s[i] = "{"
         THEN LET j == skip_ws(s, i + 1)
              IN  IF j <= Len(s) /\ s[j] = "}" THEN Ok(<<"obj", <<>>>>, j + 1)
                  ELSE object_pairs(s, j, <<>>)
    ELSE IF s[i] = "["
         THEN LET j == skip_ws(s, i + 1)
              IN  IF j <= Len(s) /\ s[j] = "]" THEN Ok(<<"arr", <<>>>>, j + 1)
                  ELSE array_items(s, j, <<>>)
    ELSE IF s[i] \in Digits
         THEN Ok(<<"num", int(SubSeq(s, i, number_end(s, i) - 1))>>, number_end(s, i))
    ELSE Fail

\* (variant) raw_decode: what follows the value is not looked at.
extra_data_ignored(s, end) == TRUE

\* JSONDecoder.decode: "if end != len(s): raise JSONDecodeError('Extra data')"
no_extra_data(s, end) == skip_ws(s, end) > Len(s)

\* json.loads(s)
json_loads(s) ==
    LET value == scan_once(s, skip_ws(s, 1))
    IN  IF value.ok /\ no_extra_data(s, value.end)
        THEN Return(value.val)
        ELSE Raise("JSONDecodeError")

\* json.dumps(obj), with its default separators ", " and ": "
RECURSIVE str_digits(_)
str_digits(n) ==
    IF n < 10 THEN <<IF n = 1 THEN "1" ELSE "0">>
    ELSE str_digits(n \div 10) \o <<IF n % 10 = 1 THEN "1" ELSE "0">>

RECURSIVE encode_chars(_)
encode_chars(chars) ==
    IF chars = <<>> THEN <<>>
    ELSE (CASE Head(chars) = "\"" -> <<"\\", "\"">>
            [] Head(chars) = "\\" -> <<"\\", "\\">>
            [] Head(chars) = "\n" -> <<"\\", "n">>
            [] OTHER -> <<Head(chars)>>)
         \o encode_chars(Tail(chars))

encode_string(chars) == <<"\"">> \o encode_chars(chars) \o <<"\"">>

RECURSIVE json_dumps(_), dumps_items(_), dumps_pairs(_)

dumps_items(items) ==
    IF items = <<>> THEN <<>>
    ELSE json_dumps(Head(items))
         \o (IF Len(items) > 1 THEN <<",", " ">> ELSE <<>>)
         \o dumps_items(Tail(items))

dumps_pairs(pairs) ==
    IF pairs = <<>> THEN <<>>
    ELSE encode_string(Head(pairs)[1]) \o <<":", " ">> \o json_dumps(Head(pairs)[2])
         \o (IF Len(pairs) > 1 THEN <<",", " ">> ELSE <<>>)
         \o dumps_pairs(Tail(pairs))

json_dumps(obj) ==
    CASE obj[1] = "num" -> str_digits(obj[2])
      [] obj[1] = "str" -> encode_string(obj[2])
      [] obj[1] = "arr" -> <<"[">> \o dumps_items(obj[2]) \o <<"]">>
      [] OTHER -> <<"{">> \o dumps_pairs(obj[2]) \o <<"}">>

\* ------------------------------------------------------------------------
\* client.parse_json
\* ------------------------------------------------------------------------
\* 'if content.startswith(("json", "JSON")): content = content[4:]'
remove_tag(c) ==
    IF startswith(c, TagLower) \/ startswith(c, TagUpper) THEN slice_from(c, 4) ELSE c

\* (variant) parts[-1]: the text after the last fence.
last_part(parts) == parts[Len(parts)]

\* "content = parts[1]": the text between the first fence and the next one
code_block(parts) == parts[2]

\* The text parse_json works on: content.strip(), and when that starts with
\* a fence, the stripped code block without its language tag.
working_text(content) ==
    LET c == strip(content)
        parts == split(c, Fence)
    IN  IF startswith(c, Fence) /\ Len(parts) >= 2
        THEN strip(remove_tag(code_block(parts)))
        ELSE c

\* (variant) the text is not tried as it is.
direct_parse_skipped(c) == Raise("JSONDecodeError")

\* "Try parsing as-is first"
direct_parse(c) == json_loads(c)

\* "Try truncating at last closing brace/bracket"
truncated_parse(c) ==
    LET last_brace == rfind(c, "}")
        last_bracket == rfind(c, "]")
        last_close == max(last_brace, last_bracket)
    IN  IF last_close > 0
        THEN json_loads(slice_to(c, last_close + 1))
        ELSE Raise("JSONDecodeError")

\* "Try counting braces to find structure boundaries": the variables of the
\* loop over enumerate(content) before its first iteration.
loop_start ==
    [i |-> 0, open_braces |-> 0, open_brackets |-> 0, in_string |-> FALSE,
     escape_next |-> FALSE, tried |-> FALSE, returned |-> <<>>]

\* (variant) the scan does not track string literals.
strings_ignored(st) == TRUE

\* 'if not in_string:'
outside_string(st) == ~st.in_string

\* One iteration of the loop, at offset st.i: the loop variables after it,
\* whether it called json.loads and <<value>> when it returned one.
loop_body(c, st) ==
    LET char == c[st.i + 1]
        next == [st EXCEPT !.i = st.i + 1, !.tried = FALSE]
        braces == st.open_braces + (IF char = "{" THEN 1 ELSE 0)
                                 - (IF char = "}" THEN 1 ELSE 0)
        brackets == st.open_brackets + (IF char = "[" THEN 1 ELSE 0)
                                     - (IF char = "]" THEN 1 ELSE 0)
        truncated == slice_to(c, st.i + 1)
    IN  IF st.escape_next THEN [next EXCEPT !.escape_next = FALSE]
        ELSE IF char = "\\" /\ st.in_string THEN [next EXCEPT !.escape_next = TRUE]
        ELSE IF char = "\"" THEN [next EXCEPT !.in_string = ~st.in_string]
        ELSE IF ~outside_string(st) THEN next
        ELSE IF braces = 0 /\ brackets = 0 /\ char \in {"}", "]"}
        THEN [next EXCEPT !.open_braces = braces, !.open_brackets = brackets,
                          !.tried = TRUE,
                          !.returned = IF json_loads(truncated).exc = None
                                       THEN <<json_loads(truncated)>> ELSE <<>>]
        ELSE [next EXCEPT !.open_braces = braces, !.open_brackets = brackets]

\* The loop entered at offset i with the four loop variables, and the
\* raise that follows it when no prefix parsed.
RECURSIVE counting_parse(_, _, _, _, _, _)
counting_parse(c, i, open_braces, open_brackets, in_string, escape_next) ==
    IF i >= Len(c) THEN Raise("JSONDecodeError")
    ELSE LET st == loop_body(c, [loop_start EXCEPT !.i = i,
                                     !.open_braces = open_braces,
                                     !.open_brackets = open_brackets,
                                     !.in_string = in_string,
                                     !.escape_next = escape_next])
         IN  IF st.returned # <<>> THEN st.returned[1]
             ELSE counting_parse(c, st.i, st.open_braces, st.open_brackets,
                                 st.in_string, st.escape_next)

\* parse_json(content): the first attempt that parses wins
parse_json(content) ==
    LET c == working_text(content)
    IN  IF direct_parse(c).exc = None THEN direct_parse(c)
        ELSE IF truncated_parse(c).exc = None THEN truncated_parse(c)
        ELSE counting_parse(c, 0, 0, 0, FALSE, FALSE)

\* ------------------------------------------------------------------------
\* Python values handled by _normalize: the JSON values above (a str is
\* the sequence of its pieces of text) and None.
\* ------------------------------------------------------------------------
Null == <<"null">>
Str(text) == <<"str", text>>
isinstance_str(v) == v[1] = "str"
isinstance_list(v) == v[1] = "arr"
isinstance_dict(v) == v[1] = "obj"

\* bool(v), as the 'or' of an expression tests it: None, 0 and the empty
\* str, list and dict are false.
truthy(v) ==
    CASE v = Null -> FALSE
      [] v[1] = "num" -> v[2] # 0
      [] OTHER -> v[2] # <<>>

\* 'key in d' and d[key] of a dict
contains(d, key) == \E k \in 1..Len(d[2]) : d[2][k][1] = key
getitem(d, key) == d[2][CHOOSE k \in 1..Len(d[2]) : d[2][k][1] = key][2]
\* d.get(key): None when the key is absent
dict_get(d, key) == IF contains(d, key) THEN getitem(d, key) ELSE Null
\* d[key] = value
setitem(d, key, value) == <<"obj", dict_set(d[2], key, value)>>

\* repr of a str: single quotes, unless the text holds one and no double
\* quote; the quote in use and the backslash are escaped.
RECURSIVE repr_chars(_, _)
repr_chars(text, quote) ==
    IF text = <<>> THEN <<>>
    ELSE (CASE Head(text) = quote -> <<"\\", quote>>
            [] Head(text) = "\\" -> <<"\\", "\\">>
            [] Head(text) = "\n" -> <<"\\", "n">>
            [] OTHER -> <<Head(text)>>)
         \o repr_chars(Tail(text), quote)

repr_str(text) ==
    LET single == \E k \in 1..Len(text) : text[k] = "'"
        double == \E k \in 1..Len(text) : text[k] = "\""
        quote == IF single /\ ~double THEN "\"" ELSE "'"
    IN  <<quote>> \o repr_chars(text, quote) \o <<quote>>

\* repr(v): "None", the digits of an int, the quoted str, and the list and
\* dict displays with ", " and ": ".
RECURSIVE repr(_), repr_items(_), repr_pairs(_)

repr_items(items) ==
    IF items = <<>> THEN <<>>
    ELSE repr(Head(items))
         \o (IF Len(items) > 1 THEN <<",", " ">> ELSE <<>>)
         \o repr_items(Tail(items))

repr_pairs(pairs) ==
    IF pairs = <<>> THEN <<>>
    ELSE repr_str(Head(pairs)[1]) \o <<":", " ">> \o repr(Head(pairs)[2])
         \o (IF Len(pairs) > 1 THEN <<",", " ">> ELSE <<>>)
         \o repr_pairs(Tail(pairs))

repr(v) ==
    CASE v = Null -> <<"N", "o", "n", "e">>
      [] v[1] = "num" -> str_digits(v[2])
      [] v[1] = "str" -> repr_str(v[2])
      [] v[1] = "arr" -> <<"[">> \o repr_items(v[2]) \o <<"]">>
      [] OTHER -> <<"{">> \o repr_pairs(v[2]) \o <<"}">>

\* str(v): the text itself for a str, repr(v) otherwise
str(v) == IF isinstance_str(v) THEN v ELSE Str(repr(v))

\* d.get(k1) or d.get(k2) or ... or default: the first value that is true,
\* the default when there is none.
RECURSIVE get_or(_, _, _)
get_or(d, keys, default) ==
    IF keys = <<>> THEN default
    ELSE IF truthy(dict_get(d, Head(keys))) THEN dict_get(d, Head(keys))
    ELSE get_or(d, Tail(keys), default)

\* The element of a list of strings:
\*   x.get(key) or ... or str(x) if isinstance(x, dict) else str(x)
item_text(x, keys) == IF isinstance_dict(x) THEN get_or(x, keys, str(x)) ELSE str(x)

\* [item_text(x) for x in items]
texts_of(items, keys) == [k \in 1..Len(items) |-> item_text(items[k], keys)]

\* The keys of the model's answer
Key(name) == <<name>>

\* ------------------------------------------------------------------------
\* Summarizer._normalize and the DailySummary constructor
\* ------------------------------------------------------------------------
\* 'normalized = data.copy()': a dict and a list have copy(), a str, an int
\* and None have not.
has_copy(data) == isinstance_dict(data) \/ isinstance_list(data)

\* '"name" in normalized' when the answer is a list: some element is that str
list_contains(data, name) == \E k \in 1..Len(data[2]) : data[2][k] = Str(Key(name))

TrendSubkeys == <<Key("note"), Key("text"), Key("analysis")>>
IssueSubkeys == <<Key("issue"), Key("text"), Key("description")>>
ThemeSubkeys == <<Key("theme")>>

\* (variant) the subkeys are tried in another order.
scalar_text_last_first(v, keys) ==
    IF isinstance_dict(v)
    THEN get_or(v, [k \in 1..Len(keys) |-> keys[Len(keys) + 1 - k]], str(v))
    ELSE str(v)

\* A field expected as a str: a subkey of a dict, str() of anything else
scalar_text(v, keys) ==
    IF isinstance_dict(v) THEN get_or(v, keys, str(v)) ELSE str(v)

\* One 'if name in normalized:' block that rewrites a field with f when
\* its guard holds.
rewrite(d, name, guard(_), f(_)) ==
    IF contains(d, Key(name)) /\ guard(getitem(d, Key(name)))
    THEN setitem(d, Key(name), f(getitem(d, Key(name))))
    ELSE d

any_value(v) == TRUE

normalize_trend_analysis(d) ==
    LET f(v) == scalar_text(v, TrendSubkeys)
    IN  rewrite(d, "trend_analysis", any_value, f)

normalize_critical_issues(d) ==
    LET f(v) == <<"arr", texts_of(v[2], IssueSubkeys)>>
    IN  rewrite(d, "critical_issues", isinstance_list, f)

normalize_key_themes(d) ==
    LET f(v) == <<"arr", texts_of(v[2], ThemeSubkeys)>>
    IN  rewrite(d, "key_themes", isinstance_list, f)

SummaryFields == {"trend_analysis", "critical_issues", "key_themes"}

Summarizer_normalize(data) ==
    IF ~has_copy(data) THEN Raise("AttributeError")
    ELSE IF isinstance_list(data)
    THEN (IF \E name \in SummaryFields : list_contains(data, name)
          THEN Raise("TypeError")
          ELSE Return(data))
    ELSE Return(normalize_key_themes(normalize_critical_issues(
                    normalize_trend_analysis(data))))

\* What pydantic accepts for a field declared str and list[str]
valid_str(v) == isinstance_str(v)
valid_list_str(v) == isinstance_list(v) /\ \A k \in 1..Len(v[2]) : valid_str(v[2][k])

\* A required field of a record: present and of the declared type
field_ok(d, name, valid(_)) == contains(d, Key(name)) /\ valid(getitem(d, Key(name)))

\* DailySummary(date=target_date, ticket_count=len(analyses), **data)
DailySummary_init(target_date, ticket_count, data) ==
    IF ~isinstance_dict(data) THEN Raise("TypeError")
    ELSE IF contains(data, Key("date")) \/ contains(data, Key("ticket_count"))
    THEN Raise("TypeError")
    ELSE IF /\ field_ok(data, "key_themes", valid_list_str)
            /\ field_ok(data, "trend_analysis", valid_str)
            /\ field_ok(data, "critical_issues", valid_list_str)
    THEN Return([date |-> target_date, ticket_count |-> ticket_count,
                 key_themes |-> getitem(data, Key("key_themes")),
                 trend_analysis |-> getitem(data, Key("trend_analysis")),
                 critical_issues |-> getitem(data, Key("critical_issues"))])
    ELSE Raise("ValidationError")

\* Lines 164-166 of summarize_day after parse_json returned data
summarize_day_build(target_date, ticket_count, data) ==
    LET normalized == Summarizer_normalize(data)
    IN  IF normalized.exc # None THEN normalized
        ELSE DailySummary_init(target_date, ticket_count, normalized.val[1])

\* ------------------------------------------------------------------------
\* Reporter._normalize and the Report constructor
\* ------------------------------------------------------------------------
ExecutiveSubkeys == <<Key("summary"), Key("text"), Key("note")>>
HealthTexts == <<"overall_health", "ticket_volume_trend", "complaint_rate_trend">>
ComparisonFields == <<"improved", "deteriorated", "stayed_same">>
DefaultSeverity == Str(<<"medium">>)
DefaultPriority == Str(<<"this_week">>)
DefaultImpact == Str(<<"medium">>)
EmptyStr == Str(<<>>)
EmptyList == <<"arr", <<>>>>

normalize_executive_summary(d) ==
    LET f(v) == scalar_text(v, ExecutiveSubkeys)
    IN  rewrite(d, "executive_summary", any_value, f)

\* 'if field in hs and not isinstance(hs[field], str): hs[field] = str(hs[field])'
RECURSIVE stringify_fields(_, _)
stringify_fields(hs, names) ==
    IF names = <<>> THEN hs
    ELSE stringify_fields(rewrite(hs, Head(names), any_value, str), Tail(names))

health_snapshot(hs) ==
    LET f(v) == <<"arr", texts_of(v[2], <<Key("driver")>>)>>
    IN  rewrite(stringify_fields(hs, HealthTexts), "top_3_drivers", isinstance_list, f)

normalize_health_snapshot(d) == rewrite(d, "health_snapshot", isinstance_dict, health_snapshot)

\* 'x = d.get(k1) or d.get(k2) or ""; if isinstance(x, (list, dict)): x = str(x)'
text_or_empty(d, keys) ==
    LET x == get_or(d, keys, EmptyStr)
    IN  IF isinstance_list(x) \/ isinstance_dict(x) THEN str(x) ELSE x

\* (variant) the severity of the source is copied, None when it has none.
severity_copied(insight) == dict_get(insight, Key("severity"))

\* 'insight.get("severity") or "medium"'
severity_of(insight) == get_or(insight, <<Key("severity")>>, DefaultSeverity)

key_insight(insight) ==
    IF isinstance_dict(insight)
    THEN <<"obj", << <<Key("insight"), get_or(insight, <<Key("insight")>>, str(insight))>>,
                     <<Key("severity"), severity_of(insight)>>,
                     <<Key("evidence"), text_or_empty(insight, <<Key("evidence"), Key("text")>>)>>,
                     <<Key("customer_impact"),
                       text_or_empty(insight, <<Key("customer_impact"), Key("impact")>>)>> >> >>
    ELSE <<"obj", << <<Key("insight"), str(insight)>>,
                     <<Key("severity"), DefaultSeverity>>,
                     <<Key("evidence"), EmptyStr>>,
                     <<Key("customer_impact"), EmptyStr>> >> >>

normalize_key_insights(d) ==
    LET f(v) == <<"arr", [k \in 1..Len(v[2]) |-> key_insight(v[2][k])]>>
    IN  rewrite(d, "key_insights", isinstance_list, f)

recommended_action(action) ==
    IF isinstance_dict(action)
    THEN <<"obj", << <<Key("action"), get_or(action, <<Key("action")>>, str(action))>>,
                     <<Key("priority"), get_or(action, <<Key("priority")>>, DefaultPriority)>>,
                     <<Key("estimated_impact"),
                       get_or(action, <<Key("estimated_impact")>>, DefaultImpact)>>,
                     <<Key("suggested_owner"),
                       get_or(action, <<Key("suggested_owner"), Key("owner")>>, EmptyStr)>>,
                     <<Key("success_metrics"),
                       text_or_empty(action, <<Key("success_metrics"), Key("metrics")>>)>> >> >>
    ELSE <<"obj", << <<Key("action"), str(action)>>,
                     <<Key("priority"), DefaultPriority>>,
                     <<Key("estimated_impact"), DefaultImpact>>,
                     <<Key("suggested_owner"), EmptyStr>>,
                     <<Key("success_metrics"), EmptyStr>> >> >>

normalize_recommended_actions(d) ==
    LET f(v) == <<"arr", [k \in 1..Len(v[2]) |-> recommended_action(v[2][k])]>>
    IN  rewrite(d, "recommended_actions", isinstance_list, f)

\* 'if name in d and isinstance(d[name], list): d[name] = [...] else: d[name] = []'
strings_or_empty(d, name, keys) ==
    IF contains(d, Key(name)) /\ isinstance_list(getitem(d, Key(name)))
    THEN setitem(d, Key(name), <<"arr", texts_of(getitem(d, Key(name))[2], keys)>>)
    ELSE setitem(d, Key(name), EmptyList)

customer_voice(cv) ==
    IF isinstance_dict(cv) THEN strings_or_empty(cv, "quotes", <<Key("quote")>>)
    ELSE <<"obj", << <<Key("quotes"), EmptyList>> >> >>

normalize_customer_voice(d) == rewrite(d, "customer_voice", any_value, customer_voice)

RECURSIVE comparison_fields(_, _)
comparison_fields(wowc, names) ==
    IF names = <<>> THEN wowc
    ELSE comparison_fields(strings_or_empty(wowc, Head(names), <<Key("item")>>), Tail(names))

week_over_week_comparison(wowc) == comparison_fields(wowc, ComparisonFields)

normalize_week_over_week_comparison(d) ==
    rewrite(d, "week_over_week_comparison", isinstance_dict, week_over_week_comparison)

ReportFields == {"executive_summary", "health_snapshot", "key_insights",
                 "recommended_actions", "customer_voice", "week_over_week_comparison"}

Reporter_normalize(data) ==
    IF ~has_copy(data) THEN Raise("AttributeError")
    ELSE IF isinstance_list(data)
    THEN (IF \E name \in ReportFields : list_contains(data, name)
          THEN Raise("TypeError")
          ELSE Return(data))
    ELSE Return(normalize_week_over_week_comparison(normalize_customer_voice(
                normalize_recommended_actions(normalize_key_insights(
                normalize_health_snapshot(normalize_executive_summary(data)))))))

\* The nested records of models.py: every field required, str or list[str]
all_str(d, names) == \A name \in names : field_ok(d, name, valid_str)

valid_HealthSnapshot(v) ==
    /\ isinstance_dict(v)
    /\ all_str(v, {"overall_health", "ticket_volume_trend", "complaint_rate_trend"})
    /\ field_ok(v, "top_3_drivers", valid_list_str)

valid_KeyInsight(v) ==
    /\ isinstance_dict(v)
    /\ all_str(v, {"insight", "severity", "evidence", "customer_impact"})

valid_RecommendedAction(v) ==
    /\ isinstance_dict(v)
    /\ all_str(v, {"action", "priority", "estimated_impact", "suggested_owner",
                   "success_metrics"})

valid_CustomerVoice(v) == isinstance_dict(v) /\ field_ok(v, "quotes", valid_list_str)

valid_WeekOverWeekComparison(v) ==
    /\ isinstance_dict(v)
    /\ \A name \in {"improved", "deteriorated", "stayed_same"} :
           field_ok(v, name, valid_list_str)

valid_list_KeyInsight(v) ==
    isinstance_list(v) /\ \A k \in 1..Len(v[2]) : valid_KeyInsight(v[2][k])

valid_list_RecommendedAction(v) ==
    isinstance_list(v) /\ \A k \in 1..Len(v[2]) : valid_RecommendedAction(v[2][k])

\* Report(period=f"{start} to {end}", **data)
Report_init(report_period, data) ==
    IF ~isinstance_dict(data) THEN Raise("TypeError")
    ELSE IF contains(data, Key("period")) THEN Raise("TypeError")
    ELSE IF /\ field_ok(data, "executive_summary", valid_str)
            /\ field_ok(data, "health_snapshot", valid_HealthSnapshot)
            /\ field_ok(data, "key_insights", valid_list_KeyInsight)
            /\ field_ok(data, "recommended_actions", valid_list_RecommendedAction)
            /\ field_ok(data, "customer_voice", valid_CustomerVoice)
            /\ field_ok(data, "week_over_week_comparison", valid_WeekOverWeekComparison)
    THEN Return([period |-> report_period,
                 executive_summary |-> getitem(data, Key("executive_summary")),
                 health_snapshot |-> getitem(data, Key("health_snapshot")),
                 key_insights |-> getitem(data, Key("key_insights")),
                 recommended_actions |-> getitem(data, Key("recommended_actions")),
                 customer_voice |-> getitem(data, Key("customer_voice")),
                 week_over_week_comparison |->
                     getitem(data, Key("week_over_week_comparison"))])
    ELSE Raise("ValidationError")

\* Lines 240-245 of generate_report after parse_json returned data
generate_report_build(report_period, data) ==
    LET normalized == Reporter_normalize(data)
    IN  IF normalized.exc # None THEN normalized
        ELSE Report_init(report_period, normalized.val[1])

\* (variant) the parsed data is written to the cache before the record is
\* built from it.
persists_unbuilt(e) == e # "JSONDecodeError"

\* The "# Cache it" save of summarize_day and generate_report follows the
\* parse and the record constructor: it runs only when neither raised.
persists(e) == e = None

VARIABLES
    tickets,         \* the list load_tickets returned
    run,             \* number of runs of run_pipeline started
    stage,           \* "idle", "extract", "summarize", "report", "finished", "aborted"
    run_log,         \* one record per run that ended
    corrupted,       \* a cache file was damaged since the last run ended
    pc,              \* per caller: "idle", "start", "acquire", "inflight", "backoff", "done"
    attempt,         \* per caller: the loop variable of APIClient.call
    requests,        \* per caller: requests sent by the call in progress
    delays,          \* per caller: the backoff sleeps of the call in progress, in seconds
    last_outcome,    \* per caller: how the request of the current attempt ended
    raised,          \* per caller: the exception that left extract_ticket / the stage
    semaphore,       \* free permits of the asyncio.Semaphore of extract_batch
    completed,       \* the progress counter of extract_batch
    results,         \* what asyncio.gather collects, one slot per ticket
    analyses_cache,  \* Extractor.cache: (date, ticket id) -> file
    summaries_cache, \* Summarizer.cache: date -> file
    reports_cache,   \* Reporter.cache: (start, end) -> file
    pending_dates,   \* dates of sorted(by_date.items()) not yet summarized
    summaries,       \* the list run_pipeline builds
    prompt,          \* the prompt of the request of the main coroutine
    report,          \* the report of this run, <<>> when none
    files,           \* cache exercise: the files under one cache root, by path
    saves,           \* cache exercise: the save / save_dated operations so far
    response,        \* parser exercise: the text handed to parse_json
    origin,          \* parser exercise: the pieces the text was put together from
    parsed,          \* parser exercise: <<outcome of parse_json>>, <<>> before the call
    scan,            \* parser exercise: <<loop variables of the counting scan>>, <<>> outside it
    kind,            \* normalizer exercise: the record to build, "summary" or "report"
    data,            \* normalizer exercise: the value parse_json returned
    built,           \* normalizer exercise: <<outcome of _normalize and the constructor>>
    issued           \* batch exercise: requests sent since extract_batch was called

callVars == <<pc, attempt, requests, delays, last_outcome, raised>>
batchVars == <<semaphore, completed, results>>
cacheVars == <<analyses_cache, summaries_cache, reports_cache>>
mainVars == <<pending_dates, summaries, prompt, report>>
runVars == <<tickets, run, stage, run_log, corrupted>>
pipelineVars == <<runVars, callVars, batchVars, cacheVars, mainVars>>
\* State of the exercises of single components: the cache and the parser,
\* each on its own.
cacheUnitVars == <<files, saves>>
parseVars == <<response, origin, parsed, scan>>
normVars == <<kind, data, built>>
unitVars == <<cacheUnitVars, parseVars, normVars, issued>>
vars == <<pipelineVars, unitVars>>

TaskIds == 1..Len(tickets)
DatedKeys == Dates \X Rows
\* The day before the first date can be looked up as "yesterday".
DateKeys == 0..NumDates
Periods == Dates \X Dates

dated_key(t) == <<t.date, t.id>>

InFlight == {c \in Callers : pc[c] = "inflight"}


\* ------------------------------------------------------------------------
\* Initial state: nothing cached, no run started.  The date window handed to
\* run_pipeline (start_date, end_date) is any pair of dates; an inverted
\* window selects no ticket.
\* ------------------------------------------------------------------------
\* No run started: the tickets of the window and the files of the dated
\* cache as given, the other caches empty.
BeforeRun(loaded, stored) ==
    /\ tickets = loaded
    /\ run = 0
    /\ stage = "idle"
    /\ run_log = <<>>
    /\ corrupted = FALSE
    /\ pc = [c \in Callers |-> "idle"]
    /\ attempt = [c \in Callers |-> 0]
    /\ requests = [c \in Callers |-> 0]
    /\ delays = [c \in Callers |-> <<>>]
    /\ last_outcome = [c \in Callers |-> None]
    /\ raised = [c \in Callers |-> None]
    /\ semaphore = max_concurrent
    /\ completed = 0
    /\ results = <<>>
    /\ analyses_cache = stored
    /\ summaries_cache = [k \in DateKeys |-> Absent]
    /\ reports_cache = [k \in Periods |-> Absent]
    /\ pending_dates = <<>>
    /\ summaries = <<>>
    /\ prompt = <<>>
    /\ report = <<>>

PipelineInit(loaded) == BeforeRun(loaded, [k \in DatedKeys |-> Absent])

\* ------------------------------------------------------------------------
\* The cache on its own: one cache root, flat and dated entries
\* ------------------------------------------------------------------------
MaxSaves == 3           \* save / save_dated operations in one behaviour

CacheKeys == {"ticket_1", "2024-01"}
CacheValues == {"v1", "v2"}
CacheDates == {[year |-> 2024, month |-> 1, day |-> 1],
               [year |-> 2024, month |-> 1, day |-> 2],
               [year |-> 2024, month |-> 2, day |-> 1]}

\* target_date.strftime("%Y-%m") and target_date.strftime("%d")
year_month(target_date) == <<target_date.year, target_date.month>>
day_of(target_date) == target_date.day

\* f"{key}.json"
json_name(key) == <<key, "json">>

\* self.cache_dir / f"{key}.json", as the path below the cache root
cache_file(key) == <<json_name(key)>>

\* (variant) the day directory is left out: cache_dir / year_month / file
dated_cache_file_by_month(key, target_date) ==
    <<year_month(target_date), json_name(key)>>

\* self.cache_dir / year_month / day / f"{key}.json"
dated_cache_file(key, target_date) ==
    <<year_month(target_date), day_of(target_date), json_name(key)>>

CachePaths ==
    {cache_file(key) : key \in CacheKeys}
    \cup {dated_cache_file(key, d) : key \in CacheKeys, d \in CacheDates}

\* DateOrganizedCache.get_dated / save_dated, and the inherited get / save,
\* on the files of one cache root.
get_flat(fs, key) == get(fs, cache_file(key))
get_dated(fs, key, target_date) == get(fs, dated_cache_file(key, target_date))
save_flat(fs, key, value) == save(fs, cache_file(key), value)
save_dated(fs, key, target_date, value) ==
    save(fs, dated_cache_file(key, target_date), value)

\* The cache exercise has not saved anything.
CacheIdle ==
    /\ files = [path \in CachePaths |-> Absent]
    /\ saves = <<>>

\* ------------------------------------------------------------------------
\* The parser on its own: the texts handed to parse_json
\* ------------------------------------------------------------------------
MaxDepth == 1           \* nesting depth of the JSON values tried

Scalars ==
    {<<"num", 1>>, <<"num", 10>>,
     <<"str", <<>>>>, <<"str", <<"x">>>>, <<"str", <<"}">>>>, <<"str", <<"[">>>>,
     <<"str", <<"\"">>>>, <<"str", <<"\\">>>>}

\* Scalars, and arrays and objects of up to two members around the values
\* one level down; the second key of an object holds a closing brace.
RECURSIVE JsonValues(_)
JsonValues(depth) ==
    IF depth = 0 THEN Scalars
    ELSE LET inner == JsonValues(depth - 1)
             one == <<"num", 1>>
         IN  inner
             \cup {<<"arr", <<>>>>, <<"obj", <<>>>>}
             \cup {<<"arr", <<v>>>> : v \in inner}
             \cup {<<"arr", <<v, one>>>> : v \in inner}
             \cup {<<"obj", << <<<<"a">>, v>> >> >> : v \in inner}
             \cup {<<"obj", << <<<<"a">>, v>>, <<<<"}">>, one>> >> >> : v \in inner}

Values == JsonValues(MaxDepth)
Structures == {v \in Values : v[1] \in {"arr", "obj"}}

\* What a completion may put before the JSON text: nothing, white space,
\* prose, a fence (bare, or tagged json / JSON), prose and then a fence.
ProseLeads == {<<"x", ":", " ">>, <<"x", " ">> \o Fence \o TagLower \o <<"\n">>}
FenceLeads == {Fence, Fence \o <<"\n">>, Fence \o TagLower \o <<"\n">>, Fence \o TagUpper}
Leads == {<<>>, <<" ">>} \cup ProseLeads \cup FenceLeads

\* What may follow it: nothing, prose, a closing fence (and prose or another
\* code block after it), a further structure cut off by truncation, prose
\* with a stray closing brace.
ProseTrails == {<<" ", "x">>, <<" ", "x", "}">>}
FenceTrails == {<<"\n">> \o Fence, <<"\n">> \o Fence \o <<" ", "x">>,
                Fence \o <<"[", "]">> \o Fence}
TruncatedTrails == {<<" ", "{", "\"", "a", "\"", ":", " ", "[", "1", "]", ",">>,
                    <<"\n", "[", "{", "\"">>}
Trails == {<<>>} \cup ProseTrails \cup FenceTrails \cup TruncatedTrails

\* Texts that are not JSON: nothing, prose, structures cut off, stray closers.
BrokenCores ==
    {<<>>, <<"x">>, <<"{">>, <<"[", "1", ",">>, <<"{", "\"", "a", "\"", ":">>,
     <<"}">>, <<"]", "[">>, <<"\"", "x">>}

Pieces(lead, core, trail, value) ==
    [lead |-> lead, core |-> core, trail |-> trail, value |-> value]

Origins ==
    {Pieces(lead, json_dumps(v), trail, <<v>>) :
         lead \in Leads, v \in Values, trail \in Trails}
    \cup {Pieces(lead, core, trail, <<>>) :
         lead \in Leads, core \in BrokenCores, trail \in Trails}

text_of(pieces) == pieces.lead \o pieces.core \o pieces.trail

\* The parser exercise is not running.
ParseIdle ==
    /\ response = <<>>
    /\ origin = Pieces(<<>>, <<>>, <<>>, <<>>)
    /\ parsed = <<>>
    /\ scan = <<>>

\* The normalizer exercise is not running.
NormIdle ==
    /\ kind = None
    /\ data = Null
    /\ built = <<>>

\* The requests of a batch are not counted.
BatchIdle == issued = 0

UnitIdle == CacheIdle /\ ParseIdle /\ NormIdle /\ BatchIdle

Init ==
    /\ \E start_date \in Dates, end_date \in Dates :
           PipelineInit(load_tickets(start_date, end_date))
    /\ UnitIdle

\* ------------------------------------------------------------------------
\* APIClient.call: the pieces of its retry loop
\* ------------------------------------------------------------------------
\* (variant) extract_ticket forgets to pass the semaphore.
GateNotPassed(c) == FALSE

\* extract_ticket passes the semaphore of extract_batch to call;
\* summarize_day and generate_report pass none ("if semaphore:").
UsesGate(c) == c # Main

\* (variant) a request that timed out keeps its permit.
release_unless_timeout(sem, outcome) == IF outcome = "TimeoutError" THEN sem ELSE sem + 1

\* (variant) the permit is released by hand after the request, and not when
\* the request raised.
release_on_success_only(sem, outcome) == IF outcome = "ok" THEN sem + 1 ELSE sem

\* "async with semaphore" leaves through __aexit__, which releases the
\* permit whether the body returned or raised.
release(sem, outcome) == sem + 1

\* (variant) off by one: "if attempt < self.max_retries" over a loop that is
\* one iteration longer.
should_retry_once_more(k) == k < max_retries

\* "if attempt < self.max_retries - 1: sleep; continue" else "raise"
should_retry(k) == k < max_retries - 1

\* (variant) linear backoff "2 * attempt".
backoff_linear(k) == 2 * k

\* "await asyncio.sleep(2 ** attempt)"
backoff_delay(k) == 2 ^ k

\* (variant) the handler wraps what it caught: "raise APIError(...) from e".
reraise_wrapped(e) == "APIError"

\* A bare "raise" in the handler re-raises the exception being handled.
reraise(e) == e

\* The first iteration of "for attempt in range(self.max_retries)".
begin_call(c) ==
    /\ attempt' = [attempt EXCEPT ![c] = 0]
    /\ requests' = [requests EXCEPT ![c] = 0]
    /\ delays' = [delays EXCEPT ![c] = <<>>]
    /\ last_outcome' = [last_outcome EXCEPT ![c] = None]

\* APIClient.call is left (return or raise): its frame is gone.
end_call(c) ==
    /\ attempt' = [attempt EXCEPT ![c] = 0]
    /\ requests' = [requests EXCEPT ![c] = 0]
    /\ delays' = [delays EXCEPT ![c] = <<>>]

\* ------------------------------------------------------------------------
\* extract_batch: what a task does when extract_ticket returns or raises
\* ------------------------------------------------------------------------
\* (variant) "except asyncio.TimeoutError as e".
CaughtTimeoutOnly(e) == e = "TimeoutError"

\* "except Exception as e" of extract_with_progress catches every failure
\* of extract_ticket.
Caught(e) == TRUE

\* (variant) asyncio.as_completed: results are collected as they arrive.
gather_as_completed(res, i, analysis) ==
    LET free == CHOOSE k \in DOMAIN res : res[k] = <<>> /\ \A j \in 1..(k - 1) : res[j] # <<>>
    IN  [res EXCEPT ![free] = <<analysis>>]

\* asyncio.gather returns the results in the order of the awaitables it was
\* given: the result of the i-th task lands in slot i.
gather_store(res, i, analysis) == [res EXCEPT ![i] = <<analysis>>]

\* (variant) the except branch of extract_with_progress does not count.
count_success_only(n, e) == IF e = None THEN n + 1 ELSE n

\* "completed += 1", in the try branch after extract_ticket returned and in
\* the except branch: no await separates the read from the write.
count_completed(n, e) == n + 1

HasPlaceholder(res) ==
    \E i \in DOMAIN res : res[i] # <<>> /\ res[i][1].category = "error"

LogEntry(outcome) == [outcome |-> outcome, placeholders |-> HasPlaceholder(results)]

\* run_pipeline is left, by a return ("finished", "no_summaries") or by an
\* exception ("aborted").
end_run(outcome) ==
    /\ stage' = IF outcome = "aborted" THEN "aborted" ELSE "finished"
    /\ run_log' = Append(run_log, LogEntry(outcome))
    /\ corrupted' = FALSE

\* The exception e, raised in caller c, leaves run_pipeline.
abort(c, e) ==
    /\ end_run("aborted")
    /\ raised' = [raised EXCEPT ![c] = e]
    /\ pc' = [pc EXCEPT ![c] = "done"]
    /\ end_call(c)
    /\ UNCHANGED <<completed, results>>

\* extract_with_progress returns `analysis` (try branch when e = None,
\* except branch otherwise) after counting the ticket as completed.
task_returns(i, analysis, e) ==
    /\ completed' = count_completed(completed, e)
    /\ results' = gather_store(results, i, analysis)
    /\ pc' = [pc EXCEPT ![i] = "done"]
    /\ raised' = [raised EXCEPT ![i] = e]
    /\ end_call(i)
    /\ UNCHANGED <<stage, run_log, corrupted>>

\* extract_ticket raised e inside extract_with_progress.
task_fails(i, e) ==
    IF Caught(e)
    THEN task_returns(i, Placeholder(tickets[i].id), e)
    ELSE abort(i, e)

\* The exception e leaves APIClient.call of caller c.
call_raises(c, e) ==
    IF c = Main THEN abort(c, e) ELSE task_fails(c, e)

Running(c) ==
    IF c = Main THEN stage \in {"summarize", "report"}
    ELSE stage = "extract" /\ c \in TaskIds

\* ------------------------------------------------------------------------
\* run_pipeline: start of a run, Layer 1
\* ------------------------------------------------------------------------
\* run_pipeline up to asyncio.gather: every extract_with_progress task is
\* created, none has run yet.
StartRun ==
    /\ stage \in {"idle", "finished", "aborted"}
    /\ run < MaxRuns
    /\ run' = run + 1
    /\ stage' = "extract"
    /\ pc' = [c \in Callers |-> IF c \in TaskIds THEN "start" ELSE "idle"]
    /\ attempt' = [c \in Callers |-> 0]
    /\ requests' = [c \in Callers |-> 0]
    /\ delays' = [c \in Callers |-> <<>>]
    /\ last_outcome' = [c \in Callers |-> None]
    /\ raised' = [c \in Callers |-> None]
    /\ semaphore' = max_concurrent
    /\ completed' = 0
    /\ results' = [i \in TaskIds |-> <<>>]
    /\ pending_dates' = <<>>
    /\ summaries' = <<>>
    /\ prompt' = <<>>
    /\ report' = <<>>
    /\ UNCHANGED <<unitVars, tickets, run_log, corrupted, cacheVars>>

\* extract_with_progress / extract_ticket up to the first await: the cache
\* check, then either the cached analysis, the loader's exception, or the
\* call of the API.
extract_ticket_start(i) ==
    /\ Running(i)
    /\ i # Main
    /\ pc[i] = "start"
    /\ LET cached == cache_check(analyses_cache, dated_key(tickets[i]))
       IN  IF cached.exc # None THEN task_fails(i, cached.exc)
           ELSE IF cached.val # <<>> THEN task_returns(i, cached.val[1], None)
           ELSE /\ pc' = [pc EXCEPT ![i] = "acquire"]
                /\ UNCHANGED <<attempt, requests, delays, raised, completed,
                               results, stage, run_log, corrupted>>
    /\ UNCHANGED <<unitVars, tickets, run, last_outcome, semaphore, cacheVars, mainVars>>

\* APIClient.call, one attempt: the permit is taken (when a gate is used)
\* and the request is sent.
send_request(c) ==
    /\ Running(c)
    /\ pc[c] = "acquire"
    /\ IF UsesGate(c)
       THEN semaphore > 0 /\ semaphore' = semaphore - 1
       ELSE UNCHANGED semaphore
    /\ pc' = [pc EXCEPT ![c] = "inflight"]
    /\ requests' = [requests EXCEPT ![c] = @ + 1]
    /\ UNCHANGED <<cacheUnitVars, parseVars, normVars, runVars, attempt, delays,
                   last_outcome, raised, completed, results, cacheVars, mainVars>>

acquire(c) == send_request(c) /\ UNCHANGED issued

\* The request of caller c times out or fails: the permit is released, then
\* the handler sleeps before the next attempt or re-raises.
request_fails(c, e) ==
    /\ Running(c)
    /\ pc[c] = "inflight"
    /\ semaphore' = IF UsesGate(c) THEN release(semaphore, e) ELSE semaphore
    /\ last_outcome' = [last_outcome EXCEPT ![c] = e]
    /\ IF should_retry(attempt[c])
       THEN /\ pc' = [pc EXCEPT ![c] = "backoff"]
            /\ delays' = [delays EXCEPT ![c] = Append(@, backoff_delay(attempt[c]))]
            /\ UNCHANGED <<attempt, requests, raised, completed, results,
                           stage, run_log, corrupted>>
       ELSE call_raises(c, reraise(e))
    /\ UNCHANGED <<unitVars, tickets, run, cacheVars, mainVars>>

\* The backoff sleep is over: "continue" leaves the handler (the exception
\* it handled is dropped) and starts the next iteration.
backoff_over(c) ==
    /\ Running(c)
    /\ pc[c] = "backoff"
    /\ attempt' = [attempt EXCEPT ![c] = @ + 1]
    /\ last_outcome' = [last_outcome EXCEPT ![c] = None]
    /\ pc' = [pc EXCEPT ![c] = "acquire"]
    /\ UNCHANGED <<unitVars, runVars, requests, delays, raised, batchVars, cacheVars, mainVars>>

\* (variant) the except branch stores the placeholder like an analysis.
placeholder_saved(cache, key, placeholder) == save(cache, key, placeholder)

\* The except branch of extract_with_progress builds the placeholder and
\* returns it: it has no save_dated, the cache stays as it is.
placeholder_not_saved(cache, key, placeholder) == cache

\* The request of an extraction task succeeds with `text`: the permit is
\* released, call returns the text, extract_ticket parses it, builds the
\* TicketAnalysis, saves it and returns it.
extract_ticket_response(i, text) ==
    /\ Running(i)
    /\ i # Main
    /\ pc[i] = "inflight"
    /\ semaphore' = release(semaphore, "ok")
    /\ last_outcome' = [last_outcome EXCEPT ![i] = "ok"]
    /\ LET e == parse_and_build(text)
           analysis == TicketAnalysis(tickets[i].id)
       IN  IF e # None
           THEN /\ task_fails(i, e)
                /\ analyses_cache' = placeholder_not_saved(analyses_cache,
                                          dated_key(tickets[i]),
                                          Placeholder(tickets[i].id))
           ELSE /\ analyses_cache' = save(analyses_cache, dated_key(tickets[i]), analysis)
                /\ task_returns(i, analysis, None)
    /\ UNCHANGED <<unitVars, tickets, run, summaries_cache, reports_cache, mainVars>>

\* ------------------------------------------------------------------------
\* run_pipeline: Layer 2
\* ------------------------------------------------------------------------
\* (variant) "for target_date, day_analyses in by_date.items()": the dates in
\* the order in which the ticket list first shows them.
RECURSIVE first_seen(_, _)
first_seen(i, seen) ==
    IF i > Len(tickets) THEN <<>>
    ELSE IF tickets[i].date \in seen THEN first_seen(i + 1, seen)
    ELSE <<tickets[i].date>> \o first_seen(i + 1, seen \cup {tickets[i].date})

insertion_order(S) == first_seen(1, {})

\* sorted(by_date.items()): the dates are the keys of a dict, so no two items
\* compare equal on the date and the order is by date, ascending.
RECURSIVE sorted(_)
sorted(S) ==
    IF S = {} THEN <<>>
    ELSE LET least == CHOOSE d \in S : \A other \in S : d <= other
         IN  <<least>> \o sorted(S \ {least})

\* by_date.setdefault(ticket_date, []).append(analysis) over zip(tickets, analyses)
RECURSIVE day_analyses(_, _)
day_analyses(d, i) ==
    IF i > Len(tickets) THEN <<>>
    ELSE (IF tickets[i].date = d THEN <<results[i][1]>> ELSE <<>>)
         \o day_analyses(d, i + 1)

by_date(d) == day_analyses(d, 1)

\* asyncio.gather has every result: extract_batch returns, its tasks are
\* gone, run_pipeline groups the analyses by date.
extract_batch_returns ==
    /\ stage = "extract"
    /\ \A i \in TaskIds : pc[i] = "done"
    /\ stage' = "summarize"
    /\ pending_dates' = sorted({tickets[i].date : i \in TaskIds})
    /\ pc' = [c \in Callers |-> IF c = Main THEN "start" ELSE "idle"]
    /\ last_outcome' = [c \in Callers |-> None]
    /\ raised' = [c \in Callers |-> None]
    /\ UNCHANGED <<unitVars, tickets, run, run_log, corrupted, attempt, requests, delays,
                   batchVars, cacheVars, summaries, prompt, report>>

\* yesterday = target_date - timedelta(days=1)
yesterday(target_date) == target_date - 1

\* (variant) the context of yesterday is never filled in.
previous_summary_default(prev) == NoPreviousSummary

\* previous_summary = "No previous summary", replaced by prev.trend_analysis
\* when the cache holds a summary under yesterday's key.
previous_summary(prev) ==
    IF prev.val # <<>> THEN prev.val[1].trend_analysis ELSE NoPreviousSummary

\* SUMMARIZE_PROMPT.format(ticket_count=..., previous_summary=...)
SummarizePrompt(d, context) ==
    [date |-> d, ticket_count |-> Len(by_date(d)), previous_summary |-> context]

\* summarize_day up to its await: the cache check, then the context of
\* yesterday and the call of the API.
summarize_day_start ==
    /\ stage = "summarize"
    /\ pc[Main] = "start"
    /\ pending_dates # <<>>
    /\ LET target_date == Head(pending_dates)
           cached == cache_check(summaries_cache, target_date)
           prev == cache_check(summaries_cache, yesterday(target_date))
       IN  IF cached.exc # None
           THEN /\ abort(Main, cached.exc)
                /\ UNCHANGED <<last_outcome, pending_dates, summaries, prompt>>
           ELSE IF cached.val # <<>>
           THEN /\ summaries' = Append(summaries, cached.val[1])
                /\ pending_dates' = Tail(pending_dates)
                /\ UNCHANGED <<callVars, completed, results, stage, run_log,
                               corrupted, prompt>>
           ELSE IF prev.exc # None
           THEN /\ abort(Main, prev.exc)
                /\ UNCHANGED <<last_outcome, pending_dates, summaries, prompt>>
           ELSE /\ prompt' = <<SummarizePrompt(target_date, previous_summary(prev))>>
                /\ begin_call(Main)
                /\ pc' = [pc EXCEPT ![Main] = "acquire"]
                /\ UNCHANGED <<raised, completed, results, stage, run_log,
                               corrupted, pending_dates, summaries>>
    /\ UNCHANGED <<unitVars, tickets, run, semaphore, cacheVars, report>>

\* DailySummary(date=target_date, ticket_count=len(analyses), **data)
DailySummary(target_date, trend) ==
    [date |-> target_date, ticket_count |-> Len(by_date(target_date)),
     trend_analysis |-> trend]

\* The request of summarize_day succeeds: parse, normalize, build, save;
\* run_pipeline appends the summary and goes to the next date.
summarize_day_response(text, trend) ==
    /\ stage = "summarize"
    /\ pc[Main] = "inflight"
    /\ last_outcome' = [last_outcome EXCEPT ![Main] = "ok"]
    /\ LET e == parse_and_build(text)
           target_date == Head(pending_dates)
           summary == DailySummary(target_date, trend)
       IN  IF e # None
           THEN /\ abort(Main, e)
                /\ summaries_cache' = IF persists(e)
                                      THEN save(summaries_cache, target_date, summary)
                                      ELSE summaries_cache
                /\ UNCHANGED <<summaries, pending_dates>>
           ELSE /\ summaries_cache' = save(summaries_cache, target_date, summary)
                /\ summaries' = Append(summaries, summary)
                /\ pending_dates' = Tail(pending_dates)
                /\ pc' = [pc EXCEPT ![Main] = "start"]
                /\ end_call(Main)
                /\ UNCHANGED <<raised, completed, results, stage, run_log, corrupted>>
    /\ UNCHANGED <<unitVars, tickets, run, semaphore, analyses_cache, reports_cache,
                   prompt, report>>

\* ------------------------------------------------------------------------
\* run_pipeline: Layer 3
\* ------------------------------------------------------------------------
\* (variant) run_pipeline goes on to generate_report without looking at the
\* list.
not_checked(sums) == FALSE

\* "if not summaries:" of run_pipeline
not_summaries(sums) == sums = <<>>

\* "if not summaries: return"
no_summaries ==
    /\ stage = "summarize"
    /\ pc[Main] = "start"
    /\ pending_dates = <<>>
    /\ not_summaries(summaries)
    /\ end_run("no_summaries")
    /\ pc' = [pc EXCEPT ![Main] = "done"]
    /\ UNCHANGED <<unitVars, tickets, run, attempt, requests, delays, last_outcome, raised,
                   batchVars, cacheVars, mainVars>>

\* generate_report up to its await: the prompt is built from the summaries
\* and the API is called; the cache is not consulted.
generate_report_start ==
    /\ stage = "summarize"
    /\ pc[Main] = "start"
    /\ pending_dates = <<>>
    /\ ~not_summaries(summaries)
    /\ stage' = "report"
    /\ prompt' = <<[summaries |-> summaries]>>
    /\ begin_call(Main)
    /\ pc' = [pc EXCEPT ![Main] = "acquire"]
    /\ UNCHANGED <<unitVars, tickets, run, run_log, corrupted, raised, batchVars, cacheVars,
                   pending_dates, summaries, report>>

\* report.period and the key "report_{start}_{end}"
period(sums) == <<sums[1].date, sums[Len(sums)].date>>

\* What generate_report raises after the response arrived, None when it
\* returns: parse_json first, then summaries[0], then the Report constructor.
report_failure(text, sums) ==
    CASE text = "prose" -> "JSONDecodeError"
      [] text # "prose" /\ sums = <<>> -> "IndexError"
      [] OTHER -> parse_and_build(text)

Report(sums) == [period |-> period(sums)]

\* The request of generate_report succeeds: parse, normalize, build, save;
\* run_pipeline writes the markdown file and returns.
generate_report_response(text) ==
    /\ stage = "report"
    /\ pc[Main] = "inflight"
    /\ last_outcome' = [last_outcome EXCEPT ![Main] = "ok"]
    /\ LET e == report_failure(text, summaries)
       IN  IF e # None
           THEN /\ abort(Main, e)
                /\ reports_cache' = IF persists(e)
                                    THEN save(reports_cache, period(summaries),
                                              Report(summaries))
                                    ELSE reports_cache
                /\ UNCHANGED report
           ELSE /\ reports_cache' = save(reports_cache, period(summaries), Report(summaries))
                /\ report' = <<Report(summaries)>>
                /\ end_run("finished")
                /\ pc' = [pc EXCEPT ![Main] = "done"]
                /\ end_call(Main)
                /\ UNCHANGED <<raised, completed, results>>
    /\ UNCHANGED <<unitVars, tickets, run, semaphore, analyses_cache, summaries_cache,
                   pending_dates, summaries, prompt>>

\* ------------------------------------------------------------------------
\* Environment: between two runs one cache file may be damaged (truncated,
\* or written by another schema version)
\* ------------------------------------------------------------------------
BetweenRuns == stage \in {"finished", "aborted"} /\ run < MaxRuns

corrupt_analysis(key) ==
    /\ BetweenRuns
    /\ ~corrupted
    /\ Decodable(analyses_cache[key])
    /\ analyses_cache' = [analyses_cache EXCEPT ![key] = Garbage]
    /\ corrupted' = TRUE
    /\ UNCHANGED <<unitVars, tickets, run, stage, run_log, callVars, batchVars,
                   summaries_cache, reports_cache, mainVars>>

corrupt_summary(key) ==
    /\ BetweenRuns
    /\ ~corrupted
    /\ Decodable(summaries_cache[key])
    /\ summaries_cache' = [summaries_cache EXCEPT ![key] = Garbage]
    /\ corrupted' = TRUE
    /\ UNCHANGED <<unitVars, tickets, run, stage, run_log, callVars, batchVars,
                   analyses_cache, reports_cache, mainVars>>

\* ------------------------------------------------------------------------
Next ==
    \/ StartRun
    \/ \E i \in Rows : extract_ticket_start(i)
    \/ \E c \in Callers : acquire(c)
    \/ \E c \in Callers, e \in TransientFailures : request_fails(c, e)
    \/ \E c \in Callers : backoff_over(c)
    \/ \E i \in Rows, text \in Texts : extract_ticket_response(i, text)
    \/ extract_batch_returns
    \/ summarize_day_start
    \/ \E text \in Texts, trend \in Trends : summarize_day_response(text, trend)
    \/ no_summaries
    \/ generate_report_start
    \/ \E text \in Texts : generate_report_response(text)
    \/ \E key \in DatedKeys : corrupt_analysis(key)
    \/ \E key \in Dates : corrupt_summary(key)

Spec == Init /\ [][Next]_vars

\* ------------------------------------------------------------------------
\* One call of extract_batch, with its requests counted, over a dated cache
\* in any state earlier runs can leave: per ticket no file, the analysis
\* saved for it, or a file that cannot be decoded.
\* ------------------------------------------------------------------------
StoredFiles(loaded) ==
    {stored \in [DatedKeys -> {Absent, Garbage} \cup
                               {model_dump_json(TicketAnalysis(r)) : r \in Rows}] :
        \A key \in DatedKeys :
            IF \E k \in 1..Len(loaded) : dated_key(loaded[k]) = key
            THEN stored[key] \in {Absent, Garbage, model_dump_json(TicketAnalysis(key[2]))}
            ELSE stored[key] = Absent}

BatchInit ==
    /\ \E start_date \in Dates, end_date \in Dates :
           \E stored \in StoredFiles(load_tickets(start_date, end_date)) :
               BeforeRun(load_tickets(start_date, end_date), stored)
    /\ UnitIdle

extract_batch_called == run = 0 /\ StartRun

send_counted(c) == send_request(c) /\ issued' = issued + 1

request_ends(c) ==
    \/ \E e \in TransientFailures : request_fails(c, e)
    \/ \E text \in Texts : extract_ticket_response(c, text)

BatchNext ==
    \/ extract_batch_called
    \/ \E i \in Rows : extract_ticket_start(i)
    \/ \E i \in Rows : send_counted(i)
    \/ \E i \in Rows : request_ends(i)
    \/ \E i \in Rows : backoff_over(i)
    \/ extract_batch_returns

\* The event loop runs every task that is ready, a sleep ends, and every
\* request sent returns or fails (the timeout of wait_for).
BatchFairness ==
    /\ WF_vars(extract_batch_called)
    /\ WF_vars(extract_batch_returns)
    /\ \A i \in Rows :
           /\ WF_vars(extract_ticket_start(i))
           /\ WF_vars(send_counted(i))
           /\ WF_vars(request_ends(i))
           /\ WF_vars(backoff_over(i))

BatchSpec == BatchInit /\ [][BatchNext]_vars /\ BatchFairness

\* ------------------------------------------------------------------------
\* The cache exercise: any sequence of save and save_dated on one root
\* ------------------------------------------------------------------------
CacheInit ==
    /\ PipelineInit(<<>>)
    /\ UnitIdle

cache_save(key, value) ==
    /\ Len(saves) < MaxSaves
    /\ files' = save_flat(files, key, value)
    /\ saves' = Append(saves, [op |-> "save", key |-> key, date |-> None,
                               value |-> value])
    /\ UNCHANGED <<pipelineVars, issued, parseVars, normVars>>

cache_save_dated(key, target_date, value) ==
    /\ Len(saves) < MaxSaves
    /\ files' = save_dated(files, key, target_date, value)
    /\ saves' = Append(saves, [op |-> "save_dated", key |-> key,
                               date |-> target_date, value |-> value])
    /\ UNCHANGED <<pipelineVars, issued, parseVars, normVars>>

CacheNext ==
    \/ \E key \in CacheKeys, value \in CacheValues : cache_save(key, value)
    \/ \E key \in CacheKeys, d \in CacheDates, value \in CacheValues :
           cache_save_dated(key, d, value)

CacheSpec == CacheInit /\ [][CacheNext]_vars

\* ------------------------------------------------------------------------
\* The parser exercise: parse_json applied to one text
\* ------------------------------------------------------------------------
ParseInit ==
    /\ PipelineInit(<<>>)
    /\ CacheIdle
    /\ NormIdle
    /\ BatchIdle
    /\ origin \in Origins
    /\ response = text_of(origin)
    /\ parsed = <<>>
    /\ scan = <<>>

parse_json_returns ==
    /\ parsed = <<>>
    /\ parse_json(response).exc = None
    /\ parsed' = <<parse_json(response)>>
    /\ UNCHANGED <<pipelineVars, issued, cacheUnitVars, normVars, response, origin, scan>>

parse_json_raises ==
    /\ parsed = <<>>
    /\ parse_json(response).exc # None
    /\ parsed' = <<parse_json(response)>>
    /\ UNCHANGED <<pipelineVars, issued, cacheUnitVars, normVars, response, origin, scan>>

ParseNext == parse_json_returns \/ parse_json_raises

ParseSpec == ParseInit /\ [][ParseNext]_vars

\* ------------------------------------------------------------------------
\* The parser exercise, the counting scan one character at a time
\* ------------------------------------------------------------------------
parse_json_returns_early ==
    /\ parsed = <<>>
    /\ scan = <<>>
    /\ \/ direct_parse(working_text(response)).exc = None
       \/ truncated_parse(working_text(response)).exc = None
    /\ parsed' = <<parse_json(response)>>
    /\ UNCHANGED <<pipelineVars, issued, cacheUnitVars, normVars, response, origin, scan>>

scan_starts ==
    /\ parsed = <<>>
    /\ scan = <<>>
    /\ direct_parse(working_text(response)).exc # None
    /\ truncated_parse(working_text(response)).exc # None
    /\ scan' = <<loop_start>>
    /\ UNCHANGED <<pipelineVars, issued, cacheUnitVars, normVars, response, origin, parsed>>

scan_character ==
    /\ parsed = <<>>
    /\ scan # <<>>
    /\ scan[1].i < Len(working_text(response))
    /\ scan' = <<loop_body(working_text(response), scan[1])>>
    /\ parsed' = loop_body(working_text(response), scan[1]).returned
    /\ UNCHANGED <<pipelineVars, issued, cacheUnitVars, normVars, response, origin>>

scan_ends ==
    /\ parsed = <<>>
    /\ scan # <<>>
    /\ scan[1].i >= Len(working_text(response))
    /\ parsed' = <<Raise("JSONDecodeError")>>
    /\ UNCHANGED <<pipelineVars, issued, cacheUnitVars, normVars, response, origin, scan>>

ScanNext == parse_json_returns_early \/ scan_starts \/ scan_character \/ scan_ends

ScanSpec == ParseInit /\ [][ScanNext]_vars

\* ------------------------------------------------------------------------
\* The normalizer exercise: _normalize and the record constructor applied
\* to one value that parse_json returned
\* ------------------------------------------------------------------------
MaxThemes == 6          \* themes a response lists

\* All dicts that give some of the keys, in their order, a value of values(key)
\* What a model puts under a subkey: its text or an empty text, and when
\* not TextOnly, null or a number.
TextOnly == "text only"
AnyScalar == "any scalar"
SubkeyValues(key, values) ==
    {Str(key), EmptyStr} \cup (IF values = AnyScalar THEN {Null, <<"num", 1>>} ELSE {})

RECURSIVE PairsOver(_, _)
PairsOver(keys, values) ==
    IF keys = <<>> THEN {<<>>}
    ELSE LET rest == PairsOver(Tail(keys), values)
         IN  rest \cup {<< <<Head(keys), v>> >> \o r :
                            v \in SubkeyValues(Head(keys), values), r \in rest}

DictsOver(keys, values) == {<<"obj", pairs>> : pairs \in PairsOver(keys, values)}

\* A value that is not a dict: a text, an empty text, a number, zero, null
Scalars0 == {Str(<<"x">>), EmptyStr, <<"num", 1>>, <<"num", 0>>, Null}

\* What arrives where a text is expected: scalars, lists, dicts over the
\* subkeys of the field and one key more.
TextShapes(keys) ==
    Scalars0 \cup {EmptyList, <<"arr", <<Str(<<"x">>)>>>>}
    \cup DictsOver(keys \o <<Key("other")>>, AnyScalar)

\* What arrives where a list of texts is expected: scalars, a dict, and
\* lists of one or two elements that are texts, scalars, lists or dicts.
ItemShapes(keys) ==
    Scalars0 \cup {EmptyList} \cup DictsOver(keys \o <<Key("other")>>, TextOnly)
    \cup {<<"obj", << <<Head(keys), <<"num", 1>>>> >> >>}

ListShapes(keys) ==
    Scalars0 \cup {EmptyList, <<"obj", <<>>>>}
    \cup {<<"arr", <<x>>>> : x \in ItemShapes(keys)}
    \cup {<<"arr", <<x, Str(<<"x">>)>>>> : x \in ItemShapes(keys)}

\* A list of n themes
Themes(n) == <<"arr", [k \in 1..n |-> Str(<<"theme">>)]>>
ThemeLists == {Themes(n) : n \in 0..MaxThemes}

with_field(d, name, v) == setitem(d, Key(name), v)
without_field(d, name) == <<"obj", SelectSeq(d[2], LAMBDA pair : pair[1] # Key(name))>>

\* Answers that are not a JSON object
NonObjects == Scalars0 \cup {EmptyList, <<"arr", <<Str(<<"x">>)>>>>,
                             <<"arr", <<Str(Key("trend_analysis"))>>>>,
                             <<"arr", <<Str(Key("customer_voice"))>>>>}

\* The answer SUMMARIZE_PROMPT asks for
GoodSummary ==
    <<"obj", << <<Key("key_themes"), Themes(2)>>,
                <<Key("trend_analysis"), Str(<<"steady">>)>>,
                <<Key("critical_issues"), <<"arr", <<Str(<<"outage">>)>>>>>> >> >>

\* The good answer with one field in another shape, or missing, or with a
\* field of the caller added
SummaryAnswers ==
    {with_field(GoodSummary, "trend_analysis", v) : v \in TextShapes(TrendSubkeys)}
    \cup {with_field(GoodSummary, "critical_issues", v) : v \in ListShapes(IssueSubkeys)}
    \cup {with_field(GoodSummary, "key_themes", v) :
              v \in ListShapes(ThemeSubkeys) \cup ThemeLists}
    \cup {without_field(GoodSummary, name) : name \in SummaryFields}
    \cup {with_field(GoodSummary, "date", Str(<<"2024-01-01">>))}
    \cup NonObjects

\* The answer REPORT_PROMPT asks for
GoodHealth ==
    <<"obj", << <<Key("overall_health"), Str(<<"good">>)>>,
                <<Key("ticket_volume_trend"), Str(<<"up">>)>>,
                <<Key("complaint_rate_trend"), Str(<<"down">>)>>,
                <<Key("top_3_drivers"), <<"arr", <<Str(<<"login">>)>>>>>> >> >>

GoodInsight ==
    <<"obj", << <<Key("insight"), Str(<<"insight">>)>>,
                <<Key("severity"), Str(<<"high">>)>>,
                <<Key("evidence"), Str(<<"evidence">>)>>,
                <<Key("customer_impact"), Str(<<"churn">>)>> >> >>

GoodAction ==
    <<"obj", << <<Key("action"), Str(<<"action">>)>>,
                <<Key("priority"), Str(<<"immediate">>)>>,
                <<Key("estimated_impact"), Str(<<"high">>)>>,
                <<Key("suggested_owner"), Str(<<"support">>)>>,
                <<Key("success_metrics"), Str(<<"csat">>)>> >> >>

GoodVoice == <<"obj", << <<Key("quotes"), <<"arr", <<Str(<<"quote">>)>>>>>> >> >>

GoodComparison ==
    <<"obj", << <<Key("improved"), <<"arr", <<Str(<<"billing">>)>>>>>>,
                <<Key("deteriorated"), EmptyList>>,
                <<Key("stayed_same"), <<"arr", <<Str(<<"login">>)>>>>>> >> >>

GoodReport ==
    <<"obj", << <<Key("executive_summary"), Str(<<"summary">>)>>,
                <<Key("health_snapshot"), GoodHealth>>,
                <<Key("key_insights"), <<"arr", <<GoodInsight>>>>>>,
                <<Key("recommended_actions"), <<"arr", <<GoodAction>>>>>>,
                <<Key("customer_voice"), GoodVoice>>,
                <<Key("week_over_week_comparison"), GoodComparison>> >> >>

\* A dict of the answer with one of its fields in another shape or missing
Varied(good, name, shapes) ==
    {with_field(good, name, v) : v \in shapes} \cup {without_field(good, name)}

\* What arrives where a record is expected and is not a dict
NotDicts == Scalars0 \cup {EmptyList, <<"arr", <<Str(<<"x">>)>>>>}

HealthShapes ==
    NotDicts
    \cup Varied(GoodHealth, "overall_health", Scalars0 \cup {EmptyList, <<"obj", <<>>>>})
    \cup Varied(GoodHealth, "top_3_drivers", ListShapes(<<Key("driver")>>))

\* One key insight: a bare text or scalar, or a dict over the keys that
\* _normalize reads
InsightShapes ==
    Scalars0
    \cup DictsOver(<<Key("insight"), Key("severity"), Key("evidence"), Key("text")>>, AnyScalar)
    \cup DictsOver(<<Key("customer_impact"), Key("impact"), Key("other")>>, TextOnly)
    \cup Varied(GoodInsight, "severity", {EmptyList, <<"arr", <<Str(<<"high">>)>>>>})
    \cup Varied(GoodInsight, "evidence", {<<"arr", <<Str(<<"x">>)>>>>, GoodVoice})

ActionShapes ==
    Scalars0
    \cup DictsOver(<<Key("action"), Key("priority"), Key("estimated_impact")>>, AnyScalar)
    \cup DictsOver(<<Key("suggested_owner"), Key("owner"), Key("success_metrics"),
                     Key("metrics")>>, TextOnly)
    \cup Varied(GoodAction, "success_metrics", {<<"arr", <<Str(<<"x">>)>>>>, GoodVoice})

RecordLists(shapes, good) ==
    NotDicts \cup {<<"obj", <<>>>>}
    \cup {<<"arr", <<x>>>> : x \in shapes}
    \cup {<<"arr", <<good, x>>>> : x \in shapes}

VoiceShapes == NotDicts \cup Varied(GoodVoice, "quotes", ListShapes(<<Key("quote")>>))

ComparisonShapes ==
    NotDicts
    \cup Varied(GoodComparison, "improved", ListShapes(<<Key("item")>>))
    \cup Varied(GoodComparison, "stayed_same", Scalars0 \cup {EmptyList})

ReportAnswers ==
    Varied(GoodReport, "executive_summary", TextShapes(ExecutiveSubkeys))
    \cup Varied(GoodReport, "health_snapshot", HealthShapes)
    \cup Varied(GoodReport, "key_insights", RecordLists(InsightShapes, GoodInsight))
    \cup Varied(GoodReport, "recommended_actions", RecordLists(ActionShapes, GoodAction))
    \cup Varied(GoodReport, "customer_voice", VoiceShapes)
    \cup Varied(GoodReport, "week_over_week_comparison", ComparisonShapes)
    \cup {with_field(GoodReport, "period", Str(<<"2024">>))}
    \cup NonObjects

Kinds == {"summary", "report"}
Answers(k) == IF k = "summary" THEN SummaryAnswers ELSE ReportAnswers

\* The arguments the caller adds to the constructor
TargetDate == 1
TicketCount == 2
Period == <<1, 2>>

\* _normalize, then the constructor: <<normalized, record>>, the exception
\* of _normalize in both places when it raised.
normalize_and_build(k, answer) ==
    LET normalized == IF k = "summary" THEN Summarizer_normalize(answer)
                      ELSE Reporter_normalize(answer)
        record == IF k = "summary"
                  THEN summarize_day_build(TargetDate, TicketCount, answer)
                  ELSE generate_report_build(Period, answer)
    IN  [normalized |-> normalized, record |-> record]

NormInit ==
    /\ PipelineInit(<<>>)
    /\ CacheIdle
    /\ ParseIdle
    /\ BatchIdle
    /\ kind \in Kinds
    /\ data \in Answers(kind)
    /\ built = <<>>

normalize_builds ==
    /\ built = <<>>
    /\ normalize_and_build(kind, data).record.exc = None
    /\ built' = <<normalize_and_build(kind, data)>>
    /\ UNCHANGED <<pipelineVars, issued, cacheUnitVars, parseVars, kind, data>>

normalize_raises ==
    /\ built = <<>>
    /\ normalize_and_build(kind, data).record.exc # None
    /\ built' = <<normalize_and_build(kind, data)>>
    /\ UNCHANGED <<pipelineVars, issued, cacheUnitVars, parseVars, kind, data>>

NormNext == normalize_builds \/ normalize_raises

NormSpec == NormInit /\ [][NormNext]_vars

\* ------------------------------------------------------------------------
\* Properties
\* ------------------------------------------------------------------------
ExtractionInFlight == {i \in TaskIds : pc[i] = "inflight"}
BatchReturned == stage \in {"summarize", "report", "finished"}
IsTransient(e) == e \in TransientFailures

\* C1: during extract_batch(tickets, max_concurrent = N) the number of
\* inference requests in flight at the same time never exceeds N, under every
\* interleaving of the extraction tasks and of their retries.
C1_InFlightBounded ==
    stage = "extract" => Cardinality(ExtractionInFlight) <= max_concurrent

\* The gate is full, another task waits for a permit after a retry.
C1_Witness ==
    /\ stage = "extract"
    /\ Cardinality(ExtractionInFlight) = max_concurrent
    /\ \E i \in TaskIds : pc[i] = "acquire" /\ attempt[i] > 0

\* C2: extract_batch returns a list of the length of its input, and the
\* analysis at index i carries the ticket id of the input ticket at index i,
\* whatever the order in which the tasks completed.
C2_ResultsByPosition ==
    /\ stage # "idle" => Len(results) = Len(tickets)
    /\ \A i \in DOMAIN results :
           results[i] # <<>> => results[i][1].ticket_id = tickets[i].id
    /\ BatchReturned => \A i \in DOMAIN results : results[i] # <<>>

\* A later ticket has completed while an earlier one is still being extracted.
C2_Witness ==
    /\ stage = "extract"
    /\ \E i \in TaskIds, j \in TaskIds :
           /\ i < j
           /\ pc[j] = "done" /\ results[j] # <<>>
           /\ pc[i] = "inflight" /\ results[i] = <<>>

ExtractStep ==
    \/ \E i \in Rows : extract_ticket_start(i)
    \/ \E i \in Rows : acquire(i)
    \/ \E i \in Rows, e \in TransientFailures : request_fails(i, e)
    \/ \E i \in Rows : backoff_over(i)
    \/ \E i \in Rows, text \in Texts : extract_ticket_response(i, text)
    \/ extract_batch_returns

\* C3: a ticket whose extraction irrecoverably fails (retries exhausted, or a
\* response that cannot be parsed or built) gets a placeholder of category
\* "error"; no exception leaves extract_batch; every sibling task can still
\* run on and a task that did not fail yields its own normal analysis.
C3_FailureIsolated ==
    /\ \A i \in TaskIds :
           (stage = "extract" /\ pc[i] = "done") =>
               /\ raised[i] # None => results[i] = <<Placeholder(tickets[i].id)>>
               /\ raised[i] = None => results[i] = <<TicketAnalysis(tickets[i].id)>>
    /\ stage = "aborted" => \A i \in Rows : raised[i] = None
    /\ stage = "extract" => ENABLED ExtractStep

\* One ticket ran out of retries, its sibling was answered after a retry of
\* its own and has its normal analysis.
C3_Witness ==
    /\ stage = "extract"
    /\ \E i \in TaskIds, j \in TaskIds :
           /\ pc[i] = "done" /\ IsTransient(raised[i])
           /\ results[i][1].category = "error"
           /\ pc[j] = "done" /\ raised[j] = None /\ last_outcome[j] = "ok"
           /\ results[j][1].category = "bug"

CallOver(c) == pc'[c] \in {"done", "start"}

\* C4: one call of APIClient.call sends at most max_retries requests; the
\* request that succeeds is its last one (the call is over in the step that
\* delivers the text); the call raises only after exactly max_retries
\* requests.
C4_AtMostMaxRetries ==
    [][\A c \in Callers :
          /\ requests'[c] <= max_retries
          /\ (pc[c] = "inflight" /\ last_outcome'[c] = "ok") => CallOver(c)
          /\ (raised[c] = None /\ IsTransient(raised'[c])) =>
                 requests[c] = max_retries /\ CallOver(c)
          /\ (pc[c] = "inflight" /\ IsTransient(last_outcome'[c])
                 /\ requests[c] < max_retries) => pc'[c] = "backoff"]_vars

\* A call that gave up after its last attempt, next to a call that succeeded.
C4_Witness ==
    \E i \in TaskIds, j \in TaskIds :
        /\ pc[i] = "done" /\ IsTransient(raised[i])
        /\ pc[j] = "done" /\ last_outcome[j] = "ok"

\* C5: when every attempt fails, the exception the caller sees is the
\* failure of the final attempt, of the same kind; a final failure is never
\* swallowed.
C5_FinalFailureSurfaces ==
    \A c \in Callers :
        /\ IsTransient(raised[c]) => raised[c] = last_outcome[c]
        /\ (pc[c] = "done" /\ IsTransient(last_outcome[c])) => raised[c] = last_outcome[c]

\* A call raised the timeout of its final attempt.
C5_Witness ==
    \E c \in Callers : pc[c] = "done" /\ raised[c] = "TimeoutError"

RECURSIVE ExpectedDelays(_)
ExpectedDelays(n) == IF n = 0 THEN <<>> ELSE Append(ExpectedDelays(n - 1), 2 ^ (n - 1))

\* C6: the sleep after failed attempt k (from 0) lasts 2^k seconds, a sleep
\* is always followed by another attempt and none follows the final failed
\* attempt: with max_retries = 3 a call sleeps 1 s, then 2 s, and no more.
C6_BackoffDelays ==
    \A c \in Callers :
        /\ pc[c] = "backoff" =>
               /\ delays[c] = ExpectedDelays(attempt[c] + 1)
               /\ attempt[c] + 1 < max_retries
        /\ pc[c] \in {"acquire", "inflight"} => delays[c] = ExpectedDelays(attempt[c])
        /\ Len(delays[c]) <= max_retries - 1
        /\ max_retries = 3 => delays[c] \in {<<>>, <<1>>, <<1, 2>>}

\* The final attempt is in flight after sleeps of 1 s and 2 s.
C6_Witness ==
    \E c \in Callers :
        pc[c] = "inflight" /\ requests[c] = max_retries /\ delays[c] = <<1, 2>>

\* C7: a permit is held exactly while a request is in flight: it is back
\* after a success, a timeout and any other failure, no task holds one during
\* a backoff sleep, and all permits are free once extract_batch has returned.
C7_PermitOnlyInFlight ==
    /\ stage = "extract" =>
           semaphore = max_concurrent - Cardinality(ExtractionInFlight)
    /\ BatchReturned => semaphore = max_concurrent

\* A task sleeps after a timeout while every permit is free.
C7_Witness ==
    /\ stage = "extract"
    /\ semaphore = max_concurrent
    /\ \E i \in TaskIds : pc[i] = "backoff" /\ last_outcome[i] = "TimeoutError"

\* C8: a ticket whose analysis is in the dated cache is served from the
\* cache: the cached analysis is the result, no request is sent, no permit
\* is taken and the cache entry is not rewritten.
C8_CacheHitNoRequest ==
    [][\A i \in Rows :
          (/\ stage = "extract" /\ i \in TaskIds /\ pc[i] = "start"
           /\ Decodable(analyses_cache[dated_key(tickets[i])])
           /\ pc'[i] # "start")
          => /\ pc'[i] = "done"
             /\ results'[i] = <<analyses_cache[dated_key(tickets[i])][2]>>
             /\ raised'[i] = None
             /\ requests'[i] = 0
             /\ semaphore' = semaphore
             /\ analyses_cache' = analyses_cache]_vars

\* In a second run a ticket is done without any request having been sent.
C8_Witness ==
    /\ run = 2
    /\ stage = "extract"
    /\ \E i \in TaskIds :
           /\ pc[i] = "done" /\ last_outcome[i] = None /\ raised[i] = None
           /\ results[i] = <<TicketAnalysis(tickets[i].id)>>

PreviousRunClean ==
    /\ run >= 2
    /\ Len(run_log) >= run - 1
    /\ run_log[run - 1] = [outcome |-> "finished", placeholders |-> FALSE]

\* C9: after a run that completed (every ticket extracted, report built), a
\* second run over the same tickets with the cache intact sends no request
\* in any of the three stages.
C9_SecondRunNoRequest ==
    (PreviousRunClean /\ ~corrupted /\ stage \in {"extract", "summarize", "report"})
        => \A c \in Callers : pc[c] # "inflight"

\* The part of C9 that the code keeps: no request in Extraction and
\* Aggregation of such a second run.
C9_SecondRunNoRequestBeforeReport ==
    (PreviousRunClean /\ ~corrupted /\ stage \in {"extract", "summarize"})
        => \A c \in Callers : pc[c] \notin {"acquire", "inflight", "backoff"}

\* C10: a cache file that cannot be decoded is treated like a missing one:
\* the lookup raises nothing and the stage goes on to call the API (and
\* then overwrites the entry).
C10_UndecodableIsAbsent ==
    [][/\ \A i \in Rows :
             (/\ stage = "extract" /\ i \in TaskIds /\ pc[i] = "start"
              /\ analyses_cache[dated_key(tickets[i])] = Garbage
              /\ pc'[i] # "start")
             => pc'[i] = "acquire" /\ raised'[i] = None
       /\ (/\ stage = "summarize" /\ pc[Main] = "start" /\ pending_dates # <<>>
           /\ summaries_cache[Head(pending_dates)] = Garbage
           /\ pc'[Main] # "start")
          => pc'[Main] = "acquire" /\ raised'[Main] = None]_vars

\* What the most recent matching operation of the log saved, as a lookup
\* result: None when there was no such operation.
RECURSIVE last_saved(_, _, _, _)
last_saved(log, op, key, target_date) ==
    IF log = <<>> THEN ReturnNone
    ELSE LET e == log[Len(log)]
         IN  IF e.op = op /\ e.key = key /\ e.date = target_date
             THEN Return(e.value)
             ELSE last_saved(SubSeq(log, 1, Len(log) - 1), op, key, target_date)

\* C11: after any sequence of save and save_dated, get(k) returns the value
\* of the most recent save(k, .) and get_dated(k, d) that of the most recent
\* save_dated(k, d, .), None when there was none: no save changes what is
\* read under another flat key or another (date, key) pair, and flat and
\* dated entries never share a file.
C11_LastWriterWins ==
    /\ \A key \in CacheKeys :
           get_flat(files, key) = last_saved(saves, "save", key, None)
    /\ \A key \in CacheKeys, d \in CacheDates :
           get_dated(files, key, d) = last_saved(saves, "save_dated", key, d)

\* One key was saved under two days of one month with different values, then
\* as a flat key: the three lookups return three separate entries.
C11_Witness ==
    \E key \in CacheKeys, d1 \in CacheDates, d2 \in CacheDates :
        /\ d1 # d2 /\ year_month(d1) = year_month(d2)
        /\ Len(saves) = MaxSaves
        /\ \E a \in 1..Len(saves), b \in 1..Len(saves), c \in 1..Len(saves) :
               /\ a < b /\ b < c
               /\ saves[a].op = "save_dated" /\ saves[a].key = key
               /\ saves[a].date = d1 /\ saves[a].value = "v1"
               /\ saves[b].op = "save_dated" /\ saves[b].key = key
               /\ saves[b].date = d2 /\ saves[b].value = "v2"
               /\ saves[c].op = "save" /\ saves[c].key = key
               /\ saves[c].value = "v2"
        /\ get_dated(files, key, d1) = Return("v1")
        /\ get_dated(files, key, d2) = Return("v2")
        /\ get_flat(files, key) = Return("v2")

Written(cache, key) == Decodable(cache'[key]) /\ cache'[key] # cache[key]
RunAborts == stage \in {"summarize", "report"} /\ stage' = "aborted"

\* C12: a failure in Aggregation or Reporting aborts the run.  The step in
\* which the exception leaves run_pipeline writes no cache entry and leaves
\* no report; within a run a summary is written only for the date being
\* summarized, which then leaves the dates still to do, so the date that
\* failed and the later dates are never written; a report is written only by
\* the step that finishes the run; nothing is written once the run is aborted.
C12_AbortPersistsNothing ==
    [][/\ RunAborts =>
              /\ cacheVars' = cacheVars
              /\ report' = <<>>
              /\ pending_dates' = pending_dates /\ summaries' = summaries
              /\ raised'[Main] # None
       /\ \A d \in DateKeys :
              Written(summaries_cache, d) =>
                  /\ stage = "summarize" /\ stage' = "summarize"
                  /\ pending_dates # <<>> /\ d = Head(pending_dates)
                  /\ \A k \in 1..Len(pending_dates') : pending_dates'[k] > d
       /\ \A key \in Periods :
              Written(reports_cache, key) =>
                  stage = "report" /\ stage' = "finished" /\ report' # <<>>
       /\ (stage = "aborted" /\ stage' = "aborted") =>
              /\ \A d \in DateKeys : ~Written(summaries_cache, d)
              /\ \A key \in DatedKeys : ~Written(analyses_cache, key)
              /\ report' = <<>>]_vars

\* The summary of the first date was persisted, then the response for the
\* second date could not be parsed: the run is aborted with the first entry
\* still in the cache, none for the second date and no report.
C12_Witness ==
    /\ stage = "aborted"
    /\ raised[Main] = "JSONDecodeError"
    /\ Len(summaries) = 1 /\ Len(pending_dates) = 1
    /\ Decodable(summaries_cache[summaries[1].date])
    /\ summaries_cache[Head(pending_dates)] = Absent
    /\ report = <<>>
    /\ \A key \in Periods : reports_cache[key] = Absent

Ascending(dates) ==
    \A a \in 1..Len(dates), b \in 1..Len(dates) : a < b => dates[a] < dates[b]

SummarizedDates == [k \in 1..Len(summaries) |-> summaries[k].date]

\* C13: within a run the dates are summarized in strictly ascending order,
\* one Aggregation request at a time; Aggregation starts only when every
\* extraction task has completed; and when the prompt of a date is built (or
\* its request is under way) the summary of every earlier date of the run is
\* in the cache.
C13_SequentialAscending ==
    /\ Ascending(SummarizedDates \o pending_dates)
    /\ stage = "extract" =>
           pc[Main] = "idle" /\ summaries = <<>> /\ pending_dates = <<>> /\ prompt = <<>>
    /\ stage = "summarize" =>
           /\ \A i \in TaskIds : results[i] # <<>>
           /\ completed = Len(tickets)
           /\ \A i \in Rows : pc[i] \notin {"start", "acquire", "inflight", "backoff"}
           /\ Cardinality(InFlight) <= 1
           /\ \A k \in 1..Len(summaries) :
                  summaries_cache[summaries[k].date] = model_dump_json(summaries[k])
           /\ pc[Main] \in {"acquire", "inflight", "backoff"} =>
                  /\ pending_dates # <<>>
                  /\ prompt[1].date = Head(pending_dates)
                  /\ \A k \in 1..Len(summaries) : summaries[k].date < prompt[1].date

\* The file lists the later date first; the request for the later date is in
\* flight after the summary of the earlier date was saved.
C13_Witness ==
    /\ stage = "summarize"
    /\ pc[Main] = "inflight"
    /\ Len(tickets) = 2 /\ tickets[1].date > tickets[2].date
    /\ Len(summaries) = 1
    /\ summaries[1].date = tickets[2].date
    /\ prompt[1].date = tickets[1].date
    /\ Decodable(summaries_cache[tickets[2].date])

Summarizing == stage = "summarize" /\ pc[Main] \in {"acquire", "inflight", "backoff"}

\* C14: on a cache miss for a date, the prompt sent by summarize_day carries
\* the trend_analysis text of the summary cached for the day before when
\* there is one, and the "No previous summary" sentinel when nothing is
\* cached for the day before.
C14_PromptContext ==
    Summarizing =>
        LET target_date == Head(pending_dates)
            prev == summaries_cache[yesterday(target_date)]
        IN  /\ prompt[1].date = target_date
            /\ summaries_cache[target_date] = Absent
            /\ Decodable(prev) => prompt[1].previous_summary = prev[2].trend_analysis
            /\ prev = Absent => prompt[1].previous_summary = NoPreviousSummary

\* The request for a date is in flight with the "stable" of the day before
\* in its prompt, the day before that date having been summarized first.
C14_Witness ==
    /\ stage = "summarize"
    /\ pc[Main] = "inflight"
    /\ Len(summaries) = 1
    /\ summaries[1].date = yesterday(Head(pending_dates))
    /\ summaries[1].trend_analysis = "stable"
    /\ prompt[1].previous_summary = "stable"

\* The request for a date is in flight with the sentinel in its prompt.
C14_WitnessSentinel ==
    /\ stage = "summarize"
    /\ pc[Main] = "inflight"
    /\ summaries_cache[yesterday(Head(pending_dates))] = Absent
    /\ prompt[1].previous_summary = NoPreviousSummary

EmptySummaries ==
    stage = "summarize" /\ pc[Main] = "start" /\ pending_dates = <<>> /\ summaries = <<>>

\* C15: when the list of daily summaries is empty, run_pipeline returns
\* without Reporting: no request is sent, no report is written to the cache,
\* none is emitted and no exception is raised.
C15_EmptySummariesNoReport ==
    [][/\ EmptySummaries =>
              /\ stage' = "finished"
              /\ run_log'[Len(run_log')].outcome = "no_summaries"
              /\ pc'[Main] = "done" /\ requests'[Main] = 0
              /\ raised'[Main] = None
              /\ report' = <<>>
              /\ cacheVars' = cacheVars
       /\ stage' = "report" => summaries' # <<>>]_vars

\* A run over a window that holds no ticket has returned without a report.
C15_Witness ==
    /\ stage = "finished"
    /\ run >= 1
    /\ tickets = <<>> /\ summaries = <<>>
    /\ run_log[Len(run_log)].outcome = "no_summaries"
    /\ report = <<>> /\ raised[Main] = None

DoneTasks == {i \in TaskIds : pc[i] = "done"}
Finishing == {i \in TaskIds : pc[i] # "done" /\ pc'[i] = "done"}

\* C16: the completion counter of extract_batch never decreases, grows by
\* exactly one in the step in which a task finishes (analysis, cache hit or
\* placeholder) and in no other step, counts the finished tasks at every
\* moment, and equals the number of tickets when extract_batch returns.
C16_CompletionCounter ==
    [][/\ (stage = "extract" /\ stage' = "extract") =>
              /\ completed' >= completed
              /\ completed' = completed + Cardinality(Finishing)
              /\ Cardinality(Finishing) <= 1
              /\ completed' = Cardinality(DoneTasks')
       /\ (stage = "extract" /\ stage' = "summarize") =>
              completed = Len(tickets) /\ completed' = completed
       /\ stage' = "extract" => completed' <= Len(tickets)]_vars

\* In a second run one ticket was served from the cache and the other ended
\* in a placeholder, the later ticket first: the counter is at 2 of 2.
C16_Witness ==
    /\ run = 2
    /\ stage = "extract"
    /\ Len(tickets) = 2 /\ completed = 2
    /\ \E i \in TaskIds, j \in TaskIds :
           /\ i # j
           /\ raised[i] = None /\ last_outcome[i] = None
           /\ results[i] = <<TicketAnalysis(tickets[i].id)>>
           /\ IsTransient(raised[j])
           /\ results[j] = <<Placeholder(tickets[j].id)>>

\* ------------------------------------------------------------------------
\* Properties of parse_json
\* ------------------------------------------------------------------------
Called == parsed # <<>>
Outcome == parsed[1]
RecoveryError == Raise("JSONDecodeError")

\* Every value tried, next to its encoding.
Encodings == {<<json_dumps(v), v>> : v \in Values}

\* The text after the first fence of t, up to the second fence when there
\* is one, without a leading json / JSON; t starts with a fence.
BetweenFences(t) ==
    IF find(t, Fence, Len(Fence)) = -1 THEN SubSeq(t, Len(Fence) + 1, Len(t))
    ELSE SubSeq(t, Len(Fence) + 1, find(t, Fence, Len(Fence)))

WithoutTag(t) ==
    IF Len(t) >= 4 /\ SubSeq(t, 1, 4) \in {TagLower, TagUpper}
    THEN SubSeq(t, 5, Len(t))
    ELSE t

Fenced(t) == Len(t) >= 3 /\ t[1] = Backtick /\ t[2] = Backtick /\ t[3] = Backtick

\* Some stretch of the text is a complete, well-formed object or array.
ContainsStructure(t) ==
    \E a \in 1..Len(t), b \in 1..Len(t) :
        /\ a < b
        /\ <<t[a], t[b]>> \in {<<"{", "}">>, <<"[", "]">>}
        /\ json_loads(SubSeq(t, a, b)).exc = None

\* C17: parse_json applied to the JSON encoding of a value v returns a value
\* equal to v; the direct parse decides, no truncation step is reached.
C17_RoundTrip ==
    Called =>
        \A e \in Encodings :
            response = e[1] =>
                /\ Outcome = Return(e[2])
                /\ direct_parse(response) = Outcome

\* The encoding of an object with an escaped quote in a value and a closing
\* brace in a key came back as that object.
C17_Witness ==
    /\ Called
    /\ response = <<"{", "\"", "a", "\"", ":", " ", "\"", "\\", "\"", "\"", ",", " ",
                    "\"", "}", "\"", ":", " ", "1", "}">>
    /\ Outcome = Return(<<"obj", << <<<<"a">>, <<"str", <<"\"">>>>>>,
                                    <<<<"}">>, <<"num", 1>>>> >> >>)

PlainProse == <<"x", ":", " ">>

\* C18: a text that holds one complete, well-formed object or array, with
\* prose before it, prose after it, or a further structure cut off after it,
\* is parsed to that structure.
C18_StructureRecovered ==
    (/\ Called
     /\ origin.value # <<>>
     /\ origin.value[1] \in Structures
     /\ origin.lead \in {<<>>, PlainProse}
     /\ origin.trail \in {<<>>} \cup ProseTrails \cup TruncatedTrails)
    => Outcome = Return(origin.value[1])

\* The part of C18 that the code keeps: nothing but white space before the
\* structure.
C18_StructureFirstRecovered ==
    (/\ Called
     /\ origin.value # <<>>
     /\ origin.value[1] \in Structures
     /\ origin.lead \in {<<>>, <<" ">>}
     /\ origin.trail \in {<<>>} \cup ProseTrails \cup TruncatedTrails)
    => Outcome = Return(origin.value[1])

\* C19: when the trimmed text starts with a fence and the text between the
\* first and the second fence, without a leading json / JSON, is the encoding
\* of a value v, parse_json returns v, whatever follows the second fence.
C19_FencedBlock ==
    (Called /\ Fenced(strip(response))) =>
        \A e \in Encodings :
            strip(WithoutTag(BetweenFences(strip(response)))) = e[1]
                => Outcome = Return(e[2])

\* A block tagged JSON, closed by a fence that another code block follows.
C19_Witness ==
    /\ Called
    /\ origin.lead = Fence \o TagUpper
    /\ origin.trail = Fence \o <<"[", "]">> \o Fence
    /\ origin.value = << <<"arr", << <<"str", <<"}">>>>, <<"num", 1>> >> >> >>
    /\ Outcome = Return(origin.value[1])

\* C20 as stated: a text that contains no balanced structure makes
\* parse_json fail with the recovery error.
C20_NoStructureFails ==
    (Called /\ ~ContainsStructure(response)) => Outcome = RecoveryError

\* The text parse_json is meant to work on, read off the text itself.
Trimmed(t) == IF Fenced(strip(t)) THEN strip(WithoutTag(BetweenFences(strip(t)))) ELSE strip(t)
IsScalarText(t) == \E v \in Scalars : Trimmed(t) = json_dumps(v)

\* C20, amended: a text that contains no balanced structure and is not, once
\* trimmed and taken out of its fence, the encoding of a JSON scalar makes
\* parse_json fail with the recovery error.
C20_NoStructureNoScalarFails ==
    (Called /\ ~ContainsStructure(response) /\ ~IsScalarText(response))
        => Outcome = RecoveryError

\* Prose around stray brackets, with a closing brace after them: the
\* truncation and the counting step both ran and found nothing.
C20_Witness ==
    /\ Called
    /\ origin.lead = PlainProse
    /\ origin.core = <<"]", "[">>
    /\ origin.trail = <<" ", "x", "}">>
    /\ ~ContainsStructure(response)
    /\ Outcome = RecoveryError

\* ------------------------------------------------------------------------
\* Properties of _normalize and the record constructors
\* ------------------------------------------------------------------------
Normalizing == built # <<>>
NormalizeOutcome == built[1].normalized
Normalized == built[1].normalized.val[1]
BuildOutcome == built[1].record
ObjectAnswer == Normalizing /\ isinstance_dict(data)

\* C21: whatever the parsed answer is, _normalize followed by the record
\* constructor does not fail.
C21_NormalizeThenBuildNeverFails ==
    Normalizing => BuildOutcome.exc = None

\* The value at a path of keys below a dict: <<value>>, <<>> when some key
\* on the way is missing or the value on the way is not a dict.
RECURSIVE lookup(_, _)
lookup(v, path) ==
    IF path = <<>> THEN <<v>>
    ELSE IF isinstance_dict(v) /\ contains(v, Key(Head(path)))
    THEN lookup(getitem(v, Key(Head(path))), Tail(path))
    ELSE <<>>

CollectionFields ==
    IF kind = "summary"
    THEN {<<"key_themes">>, <<"critical_issues">>}
    ELSE {<<"key_insights">>, <<"recommended_actions">>,
          <<"health_snapshot", "top_3_drivers">>, <<"customer_voice", "quotes">>,
          <<"week_over_week_comparison", "improved">>,
          <<"week_over_week_comparison", "deteriorated">>,
          <<"week_over_week_comparison", "stayed_same">>}

\* C22: after _normalize every collection field of the record is present
\* and is a list, the empty list when the answer had no such field.
C22_CollectionsPresent ==
    ObjectAnswer =>
        \A path \in CollectionFields :
            /\ lookup(Normalized, path) # <<>>
            /\ isinstance_list(lookup(Normalized, path)[1])
            /\ lookup(data, path) = <<>> => lookup(Normalized, path)[1] = EmptyList

\* The field expected as a text and the subkeys tried for it
TextField == IF kind = "summary" THEN "trend_analysis" ELSE "executive_summary"
TextSubkeys == IF kind = "summary" THEN <<"note", "text", "analysis">>
               ELSE <<"summary", "text", "note">>
TextArrivesAsObject ==
    /\ ObjectAnswer
    /\ lookup(data, <<TextField>>) # <<>>
    /\ isinstance_dict(lookup(data, <<TextField>>)[1])
Source == lookup(data, <<TextField>>)[1]
PresentSubkeys == {k \in 1..Len(TextSubkeys) : lookup(Source, <<TextSubkeys[k]>>) # <<>>}
TrueSubkeys == {k \in PresentSubkeys : truthy(lookup(Source, <<TextSubkeys[k]>>)[1])}
First(S) == CHOOSE k \in S : \A other \in S : k <= other
Stringified(v) == Str(repr(v))

\* C23 as stated: a text field that arrives as an object becomes the value
\* of the first listed subkey present in it, the stringified object when
\* none is present.
C23_FirstPresentSubkey ==
    TextArrivesAsObject =>
        lookup(Normalized, <<TextField>>) =
            <<IF PresentSubkeys = {} THEN Stringified(Source)
              ELSE lookup(Source, <<TextSubkeys[First(PresentSubkeys)]>>)[1]>>

\* C23, amended: it becomes the value of the first listed subkey whose value
\* is true (not None, not empty, not zero), the stringified object when no
\* listed subkey has such a value.
C23_FirstTrueSubkey ==
    TextArrivesAsObject =>
        lookup(Normalized, <<TextField>>) =
            <<IF TrueSubkeys = {} THEN Stringified(Source)
              ELSE lookup(Source, <<TextSubkeys[First(TrueSubkeys)]>>)[1]>>

\* A trend analysis with an empty text under "note" and texts under "text"
\* and "analysis" became the text under "text".
C23_Witness ==
    /\ Normalizing
    /\ kind = "summary"
    /\ TextArrivesAsObject
    /\ PresentSubkeys = {1, 2, 3}
    /\ TrueSubkeys = {2, 3}
    /\ lookup(Source, <<"note">>) = <<EmptyStr>>
    /\ lookup(Normalized, <<"trend_analysis">>) = <<Str(<<"text">>)>>

\* The key insights of the answer, when they arrive as a list
InsightsArriveAsList ==
    /\ ObjectAnswer
    /\ kind = "report"
    /\ lookup(data, <<"key_insights">>) # <<>>
    /\ isinstance_list(lookup(data, <<"key_insights">>)[1])
SourceInsights == lookup(data, <<"key_insights">>)[1][2]
NormalizedInsights == lookup(Normalized, <<"key_insights">>)[1][2]
Medium == <<"str", <<"medium">>>>

\* C24 as stated: every normalized key insight carries the severity of its
\* source when the source is an object with a severity field, and "medium"
\* when the field is missing or the source is not an object.
C24_SeverityOfSource ==
    InsightsArriveAsList =>
        /\ Len(NormalizedInsights) = Len(SourceInsights)
        /\ \A k \in 1..Len(SourceInsights) :
               lookup(NormalizedInsights[k], <<"severity">>) =
                   <<IF lookup(SourceInsights[k], <<"severity">>) # <<>>
                     THEN lookup(SourceInsights[k], <<"severity">>)[1]
                     ELSE Medium>>

\* C24, amended: it carries the severity of its source when the source is
\* an object whose severity is true (not None, not empty, not zero), and
\* "medium" otherwise.
C24_SeverityOrMedium ==
    InsightsArriveAsList =>
        /\ Len(NormalizedInsights) = Len(SourceInsights)
        /\ \A k \in 1..Len(SourceInsights) :
               lookup(NormalizedInsights[k], <<"severity">>) =
                   <<IF /\ lookup(SourceInsights[k], <<"severity">>) # <<>>
                        /\ truthy(lookup(SourceInsights[k], <<"severity">>)[1])
                     THEN lookup(SourceInsights[k], <<"severity">>)[1]
                     ELSE Medium>>

\* An insight with its own severity next to one without the field: "high"
\* was kept and "medium" filled in.
C24_Witness ==
    /\ InsightsArriveAsList
    /\ Len(SourceInsights) = 2
    /\ lookup(SourceInsights[1], <<"severity">>) = <<Str(<<"high">>)>>
    /\ isinstance_dict(SourceInsights[2])
    /\ lookup(SourceInsights[2], <<"severity">>) = <<>>
    /\ lookup(NormalizedInsights[1], <<"severity">>) = <<Str(<<"high">>)>>
    /\ lookup(NormalizedInsights[2], <<"severity">>) = <<Medium>>

\* C25: a DailySummary that summarize_day builds has at most 5 key themes.
C25_AtMostFiveThemes ==
    (Normalizing /\ kind = "summary" /\ BuildOutcome.exc = None)
        => Len(BuildOutcome.val[1].key_themes[2]) <= 5

\* ------------------------------------------------------------------------
\* Properties of the counting scan of parse_json
\* ------------------------------------------------------------------------
ScannedText == working_text(response)

\* Where the first n characters of a text leave a reader of string
\* literals: outside any, inside one, or inside one right after a backslash
\* that escapes the next character.
RECURSIVE Reading(_, _)
Reading(c, n) ==
    IF n = 0 THEN "outside"
    ELSE LET before == Reading(c, n - 1)
         IN  CASE before = "escaping" -> "inside"
               [] before = "inside" /\ c[n] = "\\" -> "escaping"
               [] before = "inside" /\ c[n] = "\"" -> "outside"
               [] before = "outside" /\ c[n] = "\"" -> "inside"
               [] OTHER -> before

InsideString(c, n) == Reading(c, n - 1) # "outside"

\* Openers minus closers outside string literals among the first n characters
RECURSIVE Depth(_, _, _, _)
Depth(c, n, opener, closer) ==
    IF n = 0 THEN 0
    ELSE Depth(c, n - 1, opener, closer)
         + (IF InsideString(c, n) THEN 0
            ELSE IF c[n] = opener THEN 1
            ELSE IF c[n] = closer THEN -1
            ELSE 0)

\* A closing brace or bracket outside a string that leaves both depths at zero
BalancedClose(c, n) ==
    /\ c[n] \in {"}", "]"}
    /\ ~InsideString(c, n)
    /\ Depth(c, n, "{", "}") = 0
    /\ Depth(c, n, "[", "]") = 0

ParsingPrefixes(c) ==
    {n \in 1..Len(c) : BalancedClose(c, n) /\ json_loads(SubSeq(c, 1, n)).exc = None}

\* C26: in the counting scan a brace or bracket inside a string literal
\* changes no depth counter and triggers no parse attempt, a quote that a
\* backslash escapes inside a string does not end the string, a parse is
\* attempted only at a closing brace or bracket outside a string that leaves
\* both counters at zero, and the value returned is the parse of the
\* shortest such prefix that parses.
C26_CountingScan ==
    [][(scan # <<>> /\ scan' # scan) =>
        LET c == ScannedText
            n == scan[1].i + 1
            before == scan[1]
            after == scan'[1]
        IN  /\ (InsideString(c, n) /\ c[n] \in {"{", "}", "[", "]"}) =>
                   /\ after.open_braces = before.open_braces
                   /\ after.open_brackets = before.open_brackets
                   /\ ~after.tried
            /\ (Reading(c, n - 1) = "escaping" /\ c[n] = "\"") => after.in_string
            /\ after.tried => BalancedClose(c, n)
            /\ after.returned # <<>> =>
                   /\ ParsingPrefixes(c) # {}
                   /\ n = First(ParsingPrefixes(c))
                   /\ parsed' = <<json_loads(SubSeq(c, 1, n))>>]_vars

\* The scan returned an object whose text holds an escaped quote and a
\* closing brace inside strings, out of a text that goes on with an object
\* cut off.
C26_Witness ==
    /\ Called
    /\ scan # <<>>
    /\ scan[1].returned = parsed
    /\ origin.lead = <<>>
    /\ origin.trail \in TruncatedTrails
    /\ origin.value = << <<"obj", << <<<<"a">>, <<"str", <<"\"">>>>>>,
                                     <<<<"}">>, <<"num", 1>>>> >> >> >>
    /\ Outcome = Return(origin.value[1])

\* ------------------------------------------------------------------------
\* Placeholders and the cache
\* ------------------------------------------------------------------------
IsPlaceholder(analysis) == analysis.category = "error"
TaskDone(i) == stage = "extract" /\ i \in TaskIds /\ pc[i] = "done"
Entry(i) == analyses_cache[dated_key(tickets[i])]

\* C27: no file of the dated cache holds a placeholder; a ticket whose
\* extraction ended in a placeholder has no cache entry, unless a file that
\* was there before (and could not be decoded) is still there; a ticket
\* without a cache entry is never finished without a request of its own,
\* and a result that comes from the cache is never a placeholder.
C27_PlaceholderNotCached ==
    /\ \A key \in DatedKeys :
           Decodable(analyses_cache[key]) => ~IsPlaceholder(analyses_cache[key][2])
    /\ \A i \in DOMAIN results :
           (results[i] # <<>> /\ IsPlaceholder(results[i][1])) => Entry(i) \in {Absent, Garbage}
    /\ \A i \in Rows :
           TaskDone(i) =>
               /\ Entry(i) = Absent => last_outcome[i] # None
               /\ (raised[i] = None /\ last_outcome[i] = None) => ~IsPlaceholder(results[i][1])

\* Second run over one ticket whose extraction failed in the first run:
\* the cache has no entry for it and a request for it is in flight.
C27_Witness ==
    /\ run = 2
    /\ Len(tickets) = 1
    /\ run_log[1].placeholders
    /\ stage = "extract"
    /\ Entry(1) = Absent
    /\ pc[1] = "inflight"
    /\ requests[1] = 1

\* ------------------------------------------------------------------------
\* Termination of extract_batch
\* ------------------------------------------------------------------------
\* The task of ticket i returned the analysis found in the cache.
ServedFromCache(i) ==
    i \in TaskIds /\ pc[i] = "done" /\ raised[i] = None /\ last_outcome[i] = None
NotServed == {i \in TaskIds : ~ServedFromCache(i)}

\* C28: when every request sent returns or fails, extract_batch returns, no
\* task waits for a permit forever, and the requests sent are at most
\* max_retries for each ticket that was not served from the cache.
C28_BatchTerminates ==
    /\ (stage = "extract") ~> (stage = "summarize")
    /\ \A i \in Rows : (stage = "extract" /\ pc[i] = "acquire") ~> (pc[i] = "inflight")
    /\ [](stage = "extract" => issued <= max_retries * Cardinality(NotServed))

\* Every task has returned: the first ticket came from the cache, the
\* second used every attempt, and max_retries requests were sent.
C28_Witness ==
    /\ stage = "extract"
    /\ Len(tickets) = 2
    /\ \A i \in TaskIds : pc[i] = "done"
    /\ ServedFromCache(1)
    /\ IsTransient(raised[2])
    /\ issued = max_retries

====
